---- MODULE Spec2Model ----
(***************************************************************************)
(* Path-based authorization of mod_authz_svn: the permission resolver, the *)
(* ancestor walk, the subtree check, the request classifier and the two    *)
(* hooks (access_checker, auth_checker) the host runs around               *)
(* authentication.                                                         *)
(*                                                                         *)
(* C strings are sequences of one-character strings, so that strcmp,       *)
(* strncmp, strchr and pointer arithmetic (&name[1]) are computed on       *)
(* characters as the code computes them.                                   *)
(***************************************************************************)
EXTENDS Integers, Sequences, FiniteSets, TLC

VARIABLES
  disk,       \* the access file of each location as svn_config_read would parse it
  conn_pool,  \* r->connection->pool userdata: cache key -> loaded svn_config_t
  r,          \* the request the host is processing (request_rec and its dir config)
  pc,         \* where the host's request pipeline stands
  status,     \* the value the last hook returned to the host
  hooklog,    \* what the last hook did: loads and check_access calls
  query,      \* arguments of a direct check_access call
  result,     \* what that check_access call returned
  mc,         \* the merge_ctx_t of a svn_ra_dav__merge_activity call
  xml,        \* the parser of the MERGE response: open elements, responses seen
  wc,         \* the push_prop calls the client has received
  out         \* where the call stands, what it returned and its output arguments

merge_vars == <<mc, xml, wc, out>>

vars == <<disk, conn_pool, r, pc, status, hooklog, query, result, mc, xml, wc, out>>

\* no svn_ra_dav__merge_activity call is under way
NoMerge ==
  /\ mc = <<>>
  /\ xml = <<>>
  /\ wc = <<>>
  /\ out = [pc |-> "idle"]

----------------------------------------------------------------------------
(* Bounds of the model *)

\* total number of rule lines of a generated access file (groups excluded)
MaxRules == 2

----------------------------------------------------------------------------
(* C strings *)

NULL == <<"(null)">>

star == <<"*">>
colon == <<":">>
slash == <<"/">>
alice == <<"a", "l", "i", "c", "e">>
carol == <<"c", "a", "r", "o", "l">>
bob == <<"b", "o", "b">>
devs == <<"d", "e", "v", "s">>
at_devs == <<"@">> \o devs
groups == <<"g", "r", "o", "u", "p", "s">>

Min(a, b) == IF a < b THEN a ELSE b

strlen(s) == Len(s)

\* 0 when equal, nonzero otherwise (the code only tests for zero)
strcmp(a, b) == IF a = b THEN 0 ELSE 1

\* compares at most n characters; a string that ends earlier differs
strncmp(a, b, n) ==
  IF SubSeq(a, 1, Min(n, Len(a))) = SubSeq(b, 1, Min(n, Len(b))) THEN 0 ELSE 1

ap_strchr_c(s, c) == \E i \in 1..Len(s) : s[i] = c

apr_pstrcat(a, b, c) == a \o b \o (IF c = NULL THEN <<>> ELSE c)

----------------------------------------------------------------------------
(* Permission bits *)

AUTHZ_SVN_NONE == 0
AUTHZ_SVN_READ == 1
AUTHZ_SVN_WRITE == 2
AUTHZ_SVN_READ_TREE == 4

Bit(x, k) == (x \div k) % 2

\* x | y and x & y on the three permission bits
BitOr(x, y) ==
  (IF Bit(x, 1) + Bit(y, 1) > 0 THEN 1 ELSE 0)
  + (IF Bit(x, 2) + Bit(y, 2) > 0 THEN 2 ELSE 0)
  + (IF Bit(x, 4) + Bit(y, 4) > 0 THEN 4 ELSE 0)

BitAnd(x, y) ==
  (IF Bit(x, 1) + Bit(y, 1) = 2 THEN 1 ELSE 0)
  + (IF Bit(x, 2) + Bit(y, 2) = 2 THEN 2 ELSE 0)
  + (IF Bit(x, 4) + Bit(y, 4) = 2 THEN 4 ELSE 0)

----------------------------------------------------------------------------
(* The policy source (svn_config_t): a sequence of sections in the order   *)
(* svn_config_enumerate_sections reports them, each a sequence of          *)
(* (name, value) lines in the order svn_config_enumerate reports them.     *)

HasSection(cfg, section) == \E i \in 1..Len(cfg) : cfg[i].name = section

SectionLines(cfg, section) ==
  IF HasSection(cfg, section)
  THEN cfg[CHOOSE i \in 1..Len(cfg) : cfg[i].name = section].lines
  ELSE <<>>

\* the value of option `option` of `section`, or default_value
svn_config_get(cfg, section, option, default_value) ==
  LET lines == SectionLines(cfg, section)
  IN IF \E i \in 1..Len(lines) : lines[i].name = option
     THEN lines[CHOOSE i \in 1..Len(lines) : lines[i].name = option].value
     ELSE default_value

\* the non-empty pieces of `input` between separator characters, in order
RECURSIVE svn_cstring_split(_, _)
svn_cstring_split(input, sep) ==
  IF input = <<>> THEN <<>>
  ELSE IF \E i \in 1..Len(input) : input[i] = sep
  THEN LET k == CHOOSE i \in 1..Len(input) :
                  input[i] = sep /\ \A j \in 1..(i - 1) : input[j] # sep
           head == SubSeq(input, 1, k - 1)
           rest == svn_cstring_split(SubSeq(input, k + 1, Len(input)), sep)
       IN IF head = <<>> THEN rest ELSE <<head>> \o rest
  ELSE <<input>>

\* dirpath and base_name of a canonical absolute path; the root splits into
\* itself twice
svn_path_split(path) ==
  IF path = slash THEN [dirpath |-> slash, base_name |-> slash]
  ELSE LET k == CHOOSE i \in 1..Len(path) :
                  path[i] = "/" /\ \A j \in (i + 1)..Len(path) : path[j] # "/"
       IN [dirpath |-> IF k = 1 THEN slash ELSE SubSeq(path, 1, k - 1),
           base_name |-> SubSeq(path, k + 1, Len(path))]

\* svn_path_join(base, component): an absolute component replaces the base
svn_path_join(base, component) ==
  IF component = <<>> THEN base
  ELSE IF component[1] = "/" THEN component
  ELSE IF base = slash THEN base \o component
  ELSE base \o slash \o component

----------------------------------------------------------------------------
(* Access checking *)

\* group_contains_user looking also into the groups its entries name
group_contains_user_nested(cfg, group, user) ==
  IF \E e \in {svn_cstring_split(svn_config_get(cfg, groups, group, <<>>),
                                  ",")[i] :
                 i \in 1..Len(svn_cstring_split(
                                svn_config_get(cfg, groups, group, <<>>),
                                ","))} :
       \/ strcmp(user, e) = 0
       \/ \E h \in {e, IF e[1] = "@" THEN Tail(e) ELSE e} :
            \E j \in 1..Len(svn_cstring_split(
                               svn_config_get(cfg, groups, h, <<>>), ",")) :
              strcmp(user, svn_cstring_split(
                             svn_config_get(cfg, groups, h, <<>>), ",")[j]) = 0
  THEN 1 ELSE 0

group_contains_user(cfg, group, user) ==
  LET value == svn_config_get(cfg, groups, group, <<>>)
      list == svn_cstring_split(value, ",")
  IN IF \E i \in 1..Len(list) : strcmp(user, list[i]) = 0 THEN 1 ELSE 0

\* parse_authz_line without the else branches that record a denial
parse_authz_line_no_deny(name, value, b) ==
  IF /\ strcmp(name, star) # 0
     /\ \/ b.user = NULL
        \/ IF Len(name) > 0 /\ name[1] = "@"
           THEN group_contains_user(b.config, Tail(name), b.user) = 0
           ELSE strcmp(name, b.user) # 0
  THEN b
  ELSE [b EXCEPT !.allow =
          BitOr(@, BitOr(IF ap_strchr_c(value, "r") THEN AUTHZ_SVN_READ
                         ELSE AUTHZ_SVN_NONE,
                         IF ap_strchr_c(value, "w") THEN AUTHZ_SVN_WRITE
                         ELSE AUTHZ_SVN_NONE))]

\* parse_authz_line without the test of the line's principal
parse_authz_line_no_skip(name, value, b) ==
  [b EXCEPT !.allow =
       BitOr(@, BitOr(IF ap_strchr_c(value, "r") THEN AUTHZ_SVN_READ
                      ELSE AUTHZ_SVN_NONE,
                      IF ap_strchr_c(value, "w") THEN AUTHZ_SVN_WRITE
                      ELSE AUTHZ_SVN_NONE)),
     !.deny =
       BitOr(@, BitOr(IF ap_strchr_c(value, "r") THEN AUTHZ_SVN_NONE
                      ELSE AUTHZ_SVN_READ,
                      IF ap_strchr_c(value, "w") THEN AUTHZ_SVN_NONE
                      ELSE AUTHZ_SVN_WRITE))]

\* parse_authz_line without the return for a request that has no user: every
\* line applies to it
parse_authz_line_anonymous_matches(name, value, b) ==
  IF /\ strcmp(name, star) # 0
     /\ b.user # NULL
     /\ IF Len(name) > 0 /\ name[1] = "@"
        THEN group_contains_user(b.config, Tail(name), b.user) = 0
        ELSE strcmp(name, b.user) # 0
  THEN b
  ELSE LET b1 == IF ap_strchr_c(value, "r")
                 THEN [b EXCEPT !.allow = BitOr(@, AUTHZ_SVN_READ)]
                 ELSE [b EXCEPT !.deny = BitOr(@, AUTHZ_SVN_READ)]
       IN IF ap_strchr_c(value, "w")
          THEN [b1 EXCEPT !.allow = BitOr(@, AUTHZ_SVN_WRITE)]
          ELSE [b1 EXCEPT !.deny = BitOr(@, AUTHZ_SVN_WRITE)]

\* parse_authz_line recording a denial of Write only for a line that grants
\* Read
parse_authz_line_silent_on_write(name, value, b) ==
  IF /\ strcmp(name, star) # 0
     /\ \/ b.user = NULL
        \/ IF Len(name) > 0 /\ name[1] = "@"
           THEN group_contains_user(b.config, Tail(name), b.user) = 0
           ELSE strcmp(name, b.user) # 0
  THEN b
  ELSE IF ap_strchr_c(value, "r")
  THEN IF ap_strchr_c(value, "w")
       THEN [b EXCEPT !.allow = BitOr(@, BitOr(AUTHZ_SVN_READ, AUTHZ_SVN_WRITE))]
       ELSE [b EXCEPT !.allow = BitOr(@, AUTHZ_SVN_READ),
                      !.deny = BitOr(@, AUTHZ_SVN_WRITE)]
  ELSE IF ap_strchr_c(value, "w")
       THEN [b EXCEPT !.allow = BitOr(@, AUTHZ_SVN_WRITE),
                      !.deny = BitOr(@, AUTHZ_SVN_READ)]
       ELSE [b EXCEPT !.deny = BitOr(@, AUTHZ_SVN_READ)]

\* parse_authz_line assigning the bits of the line where the code ORs them in
parse_authz_line_assigns(name, value, b) ==
  IF /\ strcmp(name, star) # 0
     /\ \/ b.user = NULL
        \/ IF Len(name) > 0 /\ name[1] = "@"
           THEN group_contains_user(b.config, Tail(name), b.user) = 0
           ELSE strcmp(name, b.user) # 0
  THEN b
  ELSE [b EXCEPT !.allow =
          BitOr(IF ap_strchr_c(value, "r") THEN AUTHZ_SVN_READ
                ELSE AUTHZ_SVN_NONE,
                IF ap_strchr_c(value, "w") THEN AUTHZ_SVN_WRITE
                ELSE AUTHZ_SVN_NONE),
        !.deny =
          BitOr(IF ap_strchr_c(value, "r") THEN AUTHZ_SVN_NONE
                ELSE AUTHZ_SVN_READ,
                IF ap_strchr_c(value, "w") THEN AUTHZ_SVN_NONE
                ELSE AUTHZ_SVN_WRITE)]

\* the svn_config_enumerate callback: b is the parse_authz_line_baton
parse_authz_line(name, value, b) ==
  IF /\ strcmp(name, star) # 0
     /\ \/ b.user = NULL
        \/ IF Len(name) > 0 /\ name[1] = "@"
           THEN group_contains_user(b.config, Tail(name), b.user) = 0
           ELSE strcmp(name, b.user) # 0
  THEN b
  ELSE LET b1 == IF ap_strchr_c(value, "r")
                 THEN [b EXCEPT !.allow = BitOr(@, AUTHZ_SVN_READ)]
                 ELSE [b EXCEPT !.deny = BitOr(@, AUTHZ_SVN_READ)]
       IN IF ap_strchr_c(value, "w")
          THEN [b1 EXCEPT !.allow = BitOr(@, AUTHZ_SVN_WRITE)]
          ELSE [b1 EXCEPT !.deny = BitOr(@, AUTHZ_SVN_WRITE)]

\* svn_config_enumerate(cfg, section, parse_authz_line, &baton): the callback
\* applied to every line of the section, in order; nothing for an absent section
RECURSIVE enumerate_from(_, _, _)
enumerate_from(lines, i, b) ==
  IF i > Len(lines) THEN b
  ELSE enumerate_from(lines, i + 1,
                      parse_authz_line(lines[i].name, lines[i].value, b))

svn_config_enumerate(cfg, section, b) ==
  enumerate_from(SectionLines(cfg, section), 1, b)

\* *access when a recorded denial is not overridden by a grant
AccessOf_deny_wins(b, required_access) ==
  IF BitAnd(b.deny, required_access) = 0 THEN 1 ELSE 0

\* *access as the code computes it from the baton after an enumeration
AccessOf(b, required_access) ==
  IF BitAnd(b.deny, required_access) = 0
     \/ BitAnd(b.allow, required_access) # 0
  THEN 1 ELSE 0

\* what parse_authz_lines leaves when it returns with baton b: its return
\* value, *access, and the sections it enumerated
AuthzLinesReturn(b, required_access, enumerated) ==
  [ret |-> BitAnd(b.deny, required_access) # 0
           \/ BitAnd(b.allow, required_access) # 0,
   access |-> AccessOf(b, required_access),
   enumerated |-> enumerated]

\* parse_authz_lines without the return after the qualified section
parse_authz_lines_no_return(cfg, repos_name, repos_path, user, required_access) ==
  [ret |-> BitAnd(svn_config_enumerate(cfg, repos_path,
                    svn_config_enumerate(cfg,
                      apr_pstrcat(repos_name, colon, repos_path),
                      [config |-> cfg, user |-> user, allow |-> 0,
                       deny |-> 0])).deny, required_access) # 0
           \/ BitAnd(svn_config_enumerate(cfg, repos_path,
                       svn_config_enumerate(cfg,
                         apr_pstrcat(repos_name, colon, repos_path),
                         [config |-> cfg, user |-> user, allow |-> 0,
                          deny |-> 0])).allow, required_access) # 0,
   access |-> IF BitAnd(svn_config_enumerate(cfg, repos_path,
                          svn_config_enumerate(cfg,
                            apr_pstrcat(repos_name, colon, repos_path),
                            [config |-> cfg, user |-> user, allow |-> 0,
                             deny |-> 0])).deny, required_access) = 0
                 \/ BitAnd(svn_config_enumerate(cfg, repos_path,
                             svn_config_enumerate(cfg,
                               apr_pstrcat(repos_name, colon, repos_path),
                               [config |-> cfg, user |-> user, allow |-> 0,
                                deny |-> 0])).allow, required_access) # 0
              THEN 1 ELSE 0,
   enumerated |-> <<apr_pstrcat(repos_name, colon, repos_path), repos_path>>]

parse_authz_lines(cfg, repos_name, repos_path, user, required_access) ==
  LET baton == [config |-> cfg, user |-> user, allow |-> 0, deny |-> 0]
      qualified_repos_path == apr_pstrcat(repos_name, colon, repos_path)
      b1 == svn_config_enumerate(cfg, qualified_repos_path, baton)
  IN IF BitAnd(b1.deny, required_access) # 0
        \/ BitAnd(b1.allow, required_access) # 0
     THEN AuthzLinesReturn(b1, required_access, <<qualified_repos_path>>)
     ELSE AuthzLinesReturn(svn_config_enumerate(cfg, repos_path, b1),
                           required_access,
                           <<qualified_repos_path, repos_path>>)

\* the svn_config_enumerate_sections callback: b is the
\* sections_matching_prefix_baton
\* the callback comparing only what follows the `repos_name:` of the section
\* name and of the prefix
find_sections_matching_prefix_any_repos(sec_name, b) ==
  LET path_of(x) ==
        IF \E i \in 1..Len(x) : x[i] = ":"
        THEN SubSeq(x, (CHOOSE i \in 1..Len(x) : x[i] = ":") + 1, Len(x))
        ELSE x
  IN IF strncmp(path_of(sec_name), path_of(b.prefix),
                strlen(path_of(b.prefix))) = 0
     THEN [b EXCEPT !.sections = Append(@, sec_name)]
     ELSE b

find_sections_matching_prefix(sec_name, b) ==
  IF strncmp(sec_name, b.prefix, strlen(b.prefix)) = 0
  THEN [b EXCEPT !.sections = Append(@, sec_name)]
  ELSE b

RECURSIVE enumerate_sections_from(_, _, _)
enumerate_sections_from(cfg, i, b) ==
  IF i > Len(cfg) THEN b
  ELSE enumerate_sections_from(cfg, i + 1,
                               find_sections_matching_prefix(cfg[i].name, b))

svn_config_enumerate_sections(cfg, b) == enumerate_sections_from(cfg, 1, b)

\* one of the two for-loops of check_access_subtree, from index i: whether it
\* returned, the value of *access, and the sections it evaluated
RECURSIVE subtree_loop(_, _, _, _, _, _, _)
\* the body of the for-loops without the return on a denial: the loop goes on
\* and the last section sets *access
subtree_section_no_return(cfg, list, i, user, required_access, seen, a) ==
  subtree_loop(cfg, list, i + 1, user, required_access, a, seen)

subtree_section(cfg, list, i, user, required_access, seen, a) ==
  IF a = 0
  THEN [returned |-> TRUE, access |-> a, evaluated |-> seen]
  ELSE subtree_loop(cfg, list, i + 1, user, required_access, a, seen)

subtree_loop(cfg, list, i, user, required_access, access, seen) ==
  IF i > Len(list)
  THEN [returned |-> FALSE, access |-> access, evaluated |-> seen]
  ELSE subtree_section(cfg, list, i, user, required_access,
         Append(seen, list[i]),
         AccessOf(svn_config_enumerate(cfg, list[i],
                    [config |-> cfg, user |-> user, allow |-> 0, deny |-> 0]),
                  required_access))

\* the second pass of check_access_subtree: sec_baton keeps the sections of
\* the first pass, and the loop starts again at index 0
subtree_generic(cfg, repos_path, user, required_access, sec1, loop1) ==
  IF loop1.returned THEN loop1
  ELSE subtree_loop(cfg,
         svn_config_enumerate_sections(cfg,
           [sec1 EXCEPT !.prefix = repos_path]).sections,
         1, user, required_access, loop1.access, loop1.evaluated)

subtree_qualified(cfg, repos_path, user, required_access, access, sec1) ==
  subtree_generic(cfg, repos_path, user, required_access, sec1,
    subtree_loop(cfg, sec1.sections, 1, user, required_access, access, <<>>))

\* access is the caller's *access, which the function overwrites only when it
\* evaluates a section
check_access_subtree(cfg, repos_name, repos_path, user, required_access, access) ==
  subtree_qualified(cfg, repos_path, user, required_access, access,
    svn_config_enumerate_sections(cfg,
      [prefix |-> apr_pstrcat(repos_name, colon, repos_path),
       sections |-> <<>>]))

\* the while loop of check_access: levels are the paths handed to
\* parse_authz_lines, enumerated the sections svn_config_enumerate was given
RECURSIVE walk(_, _, _, _, _, _, _, _)
walk_split(cfg, repos_name, user, required_access, levels, enumerated, s) ==
  walk(cfg, repos_name, s.dirpath, s.base_name, user, required_access,
       levels, enumerated)

\* the loop going on to the root after a decisive level, the last decisive
\* level giving the answer
walk_level_keep_going(cfg, repos_name, repos_path, base_name, user, required_access, levels, enumerated, p) ==
  IF base_name = slash
  THEN [found |-> p.ret, access |-> IF p.ret THEN p.access ELSE 0,
        levels |-> levels, enumerated |-> enumerated \o p.enumerated]
  ELSE IF p.ret /\ ~walk_split(cfg, repos_name, user, required_access, levels,
                               enumerated \o p.enumerated,
                               svn_path_split(repos_path)).found
  THEN [found |-> TRUE, access |-> p.access, levels |-> levels,
        enumerated |-> enumerated \o p.enumerated]
  ELSE walk_split(cfg, repos_name, user, required_access, levels,
                  enumerated \o p.enumerated, svn_path_split(repos_path))

\* the loop answering 1 when the root is reached without a decisive level
walk_level_default_allow(cfg, repos_name, repos_path, base_name, user, required_access, levels, enumerated, p) ==
  IF p.ret
  THEN [found |-> TRUE, access |-> p.access, levels |-> levels,
        enumerated |-> enumerated \o p.enumerated]
  ELSE IF base_name = slash
  THEN [found |-> FALSE, access |-> 1, levels |-> levels,
        enumerated |-> enumerated \o p.enumerated]
  ELSE walk_split(cfg, repos_name, user, required_access, levels,
                  enumerated \o p.enumerated, svn_path_split(repos_path))

walk_level(cfg, repos_name, repos_path, base_name, user, required_access, levels, enumerated, p) ==
  IF p.ret
  THEN [found |-> TRUE, access |-> p.access, levels |-> levels,
        enumerated |-> enumerated \o p.enumerated]
  ELSE IF base_name = slash
  THEN [found |-> FALSE, access |-> 0, levels |-> levels,
        enumerated |-> enumerated \o p.enumerated]
  ELSE walk_split(cfg, repos_name, user, required_access, levels,
                  enumerated \o p.enumerated, svn_path_split(repos_path))

\* the loop handing every level to parse_authz_lines a second time before
\* it looks at what the level said
walk_twice(cfg, repos_name, repos_path, base_name, user, required_access, levels, enumerated) ==
  walk_level(cfg, repos_name, repos_path, base_name, user, required_access,
             Append(Append(levels, repos_path), repos_path),
             enumerated \o parse_authz_lines(cfg, repos_name, repos_path, user,
                                             required_access).enumerated,
             parse_authz_lines(cfg, repos_name, repos_path, user,
                               required_access))

walk(cfg, repos_name, repos_path, base_name, user, required_access, levels, enumerated) ==
  walk_level(cfg, repos_name, repos_path, base_name, user, required_access,
             Append(levels, repos_path), enumerated,
             parse_authz_lines(cfg, repos_name, repos_path, user,
                               required_access))

\* check_access after its while loop, w being what the loop left
check_access_walked(cfg, repos_name, orig_repos_path, user, required_access, require_subtree, w) ==
  IF w.found /\ w.access # 0 /\ require_subtree
  THEN [w EXCEPT !.found = TRUE] @@
       [subtree_run |-> TRUE,
        st |-> check_access_subtree(cfg, repos_name, orig_repos_path, user,
                                    required_access, w.access)]
  ELSE w @@ [subtree_run |-> FALSE,
             st |-> [returned |-> FALSE, access |-> w.access,
                     evaluated |-> <<>>]]

CheckAccessReturn(c) ==
  [access |-> c.st.access, levels |-> c.levels, enumerated |-> c.enumerated,
   subtree_run |-> c.subtree_run, subtree |-> c.st.evaluated]

\* check_access taking a path that is not given for the root
check_access_null_is_root(cfg, repos_name, repos_path, user, required_access) ==
  CheckAccessReturn(
    check_access_walked(cfg, repos_name,
      IF repos_path = NULL THEN slash ELSE repos_path, user,
      IF required_access = AUTHZ_SVN_READ_TREE THEN AUTHZ_SVN_READ
      ELSE required_access,
      required_access = AUTHZ_SVN_READ_TREE,
      walk(cfg, repos_name, IF repos_path = NULL THEN slash ELSE repos_path,
           IF repos_path = NULL THEN slash ELSE repos_path, user,
           IF required_access = AUTHZ_SVN_READ_TREE THEN AUTHZ_SVN_READ
           ELSE required_access,
           <<>>, <<>>)))

\* the int check_access returns is .access; the other fields record what the
\* call evaluated
check_access(cfg, repos_name, repos_path, user, required_access) ==
  IF repos_path = NULL
  THEN [access |-> 1, levels |-> <<>>, enumerated |-> <<>>,
        subtree_run |-> FALSE, subtree |-> <<>>]
  ELSE CheckAccessReturn(
         check_access_walked(cfg, repos_name, repos_path, user,
           IF required_access = AUTHZ_SVN_READ_TREE THEN AUTHZ_SVN_READ
           ELSE required_access,
           required_access = AUTHZ_SVN_READ_TREE,
           walk(cfg, repos_name, repos_path, repos_path, user,
                IF required_access = AUTHZ_SVN_READ_TREE THEN AUTHZ_SVN_READ
                ELSE required_access,
                <<>>, <<>>)))

----------------------------------------------------------------------------
(* The host's constants (httpd.h, http_core.h, http_request.h) *)

OK == "OK"
DECLINED == "DECLINED"
HTTP_BAD_REQUEST == "HTTP_BAD_REQUEST"
HTTP_UNAUTHORIZED == "HTTP_UNAUTHORIZED"
HTTP_FORBIDDEN == "HTTP_FORBIDDEN"
HTTP_INTERNAL_SERVER_ERROR == "HTTP_INTERNAL_SERVER_ERROR"

SATISFY_ALL == "SATISFY_ALL"
SATISFY_ANY == "SATISFY_ANY"
SATISFY_NOSPEC == "SATISFY_NOSPEC"

PROXYREQ_NONE == "PROXYREQ_NONE"
PROXYREQ_PROXY == "PROXYREQ_PROXY"

ReadMethods == {"M_OPTIONS", "M_GET", "M_PROPFIND", "M_REPORT"}
WriteMethods == {"M_MOVE", "M_MKCOL", "M_DELETE", "M_PUT", "M_PROPPATCH",
                 "M_CHECKOUT", "M_MERGE", "M_MKACTIVITY"}

----------------------------------------------------------------------------
(* Request checking *)

\* the switch with a default branch that asks for read access
authz_svn_type_of_unknown_reads(method_number) ==
  IF method_number \in ReadMethods THEN AUTHZ_SVN_READ
  ELSE IF method_number = "M_COPY" THEN AUTHZ_SVN_READ_TREE
  ELSE IF method_number \in WriteMethods THEN AUTHZ_SVN_WRITE
  ELSE AUTHZ_SVN_READ

\* the switch on r->method_number
authz_svn_type_of(method_number) ==
  IF method_number \in ReadMethods THEN AUTHZ_SVN_READ
  ELSE IF method_number = "M_COPY" THEN AUTHZ_SVN_READ_TREE
  ELSE IF method_number \in WriteMethods THEN AUTHZ_SVN_WRITE
  ELSE AUTHZ_SVN_WRITE

\* dav_svn_split_uri(r, uri, root_path, ...): the repository name is the
\* first segment after root_path and the path in the repository is the rest;
\* an error when no repository is named; no path (NULL) for a special
\* resource, whose first segment in the repository is "!"
svn_uri_segment_end(s) ==
  IF \E i \in 1..Len(s) : s[i] = "/"
  THEN (CHOOSE i \in 1..Len(s) : s[i] = "/" /\ \A j \in 1..(i - 1) : s[j] # "/") - 1
  ELSE Len(s)

dav_svn_split_uri(uri, root_path) ==
  LET relative == SubSeq(uri, strlen(root_path) + 1, Len(uri))
      rel == IF relative # <<>> /\ relative[1] = "/" THEN Tail(relative)
             ELSE relative
      k == svn_uri_segment_end(rel)
      rest == SubSeq(rel, k + 1, Len(rel))
  IN IF strncmp(uri, root_path, strlen(root_path)) # 0 \/ rel = <<>>
     THEN [dav_err |-> TRUE, repos_name |-> NULL, repos_path |-> NULL]
     ELSE [dav_err |-> FALSE,
           repos_name |-> SubSeq(rel, 1, k),
           repos_path |-> IF rest = <<>> THEN slash
                          ELSE IF strncmp(rest, <<"/", "!">>, 2) = 0 THEN NULL
                          ELSE rest]

\* apr_uri_parse(...).path followed by ap_unescape_url: the Destination
\* values of the model are plain absolute paths
parsed_dest_uri_path(dest_uri) == dest_uri

mod_authz_svn_key == <<"m", "o", "d", "_", "a", "u", "t", "h", "z", "_",
                       "s", "v", "n", ":">>

\* svn_config_read(&cfg, file, FALSE, pool)
svn_config_read(files, file) ==
  IF file \in DOMAIN files /\ files[file].readable
  THEN [svn_err |-> FALSE, cfg |-> files[file].cfg]
  ELSE [svn_err |-> TRUE, cfg |-> <<>>]

apr_pool_userdata_set(pool, key, data) ==
  [k \in DOMAIN pool \cup {key} |-> IF k = key THEN data ELSE pool[k]]

\* one check_access call as the hook log records it
CallRecord(repos_name, repos_path, user, required_access, res) ==
  [repos_name |-> repos_name, repos_path |-> repos_path, user |-> user,
   required_access |-> required_access, access |-> res.access,
   subtree_run |-> res.subtree_run]

\* what req_check_access leaves when it returns: .ret is the int it returns,
\* .pool the connection pool, .loads the number of svn_config_read calls it
\* made, .checks the check_access calls it made
ReqReturn(ret, repos_path_ref, dest_repos_path_ref, pool, loads, checks) ==
  [ret |-> ret, repos_path_ref |-> repos_path_ref,
   dest_repos_path_ref |-> dest_repos_path_ref, pool |-> pool,
   loads |-> loads, checks |-> checks]

\* req_check_access from "Check access on the first repos_path" on, call1
\* being the check_access call on the source
req_check_dest(req, m, access_conf, pool, loads, call1, c2) ==
  ReqReturn(IF c2.access = 0 THEN DECLINED ELSE OK,
            m.repos_path_ref, m.dest_repos_path_ref, pool, loads,
            <<call1,
              CallRecord(m.dest_repos_name, m.dest_repos_path, req.user,
                         AUTHZ_SVN_WRITE, c2)>>)

\* req_check_access returning OK once the source passed, for every method
req_check_source_only(req, m, access_conf, pool, loads, c1, call1) ==
  IF c1.access = 0
  THEN ReqReturn(DECLINED, m.repos_path_ref, m.dest_repos_path_ref, pool,
                 loads, <<call1>>)
  ELSE ReqReturn(OK, m.repos_path_ref, m.dest_repos_path_ref, pool, loads,
                 <<call1>>)

\* req_check_access from its first check_access call on, c1 being what the
\* call returned
req_check_source(req, m, access_conf, pool, loads, c1, call1) ==
  IF c1.access = 0
  THEN ReqReturn(DECLINED, m.repos_path_ref, m.dest_repos_path_ref, pool,
                 loads, <<call1>>)
  ELSE IF req.method_number # "M_MOVE" /\ req.method_number # "M_COPY"
  THEN ReqReturn(OK, m.repos_path_ref, m.dest_repos_path_ref, pool, loads,
                 <<call1>>)
  ELSE req_check_dest(req, m, access_conf, pool, loads, call1,
         check_access(access_conf, m.dest_repos_name, m.dest_repos_path,
                      req.user, AUTHZ_SVN_WRITE))

req_check_loaded(req, m, access_conf, pool, loads, c1) ==
  req_check_source(req, m, access_conf, pool, loads, c1,
    CallRecord(m.repos_name, m.repos_path, req.user, m.authz_svn_type, c1))

\* req_check_access reading the access file without looking in the cache
req_check_cache_always_reads(req, conf, pool, files, m, cache_key, read) ==
  IF read.svn_err
  THEN ReqReturn(DECLINED, m.repos_path_ref, m.dest_repos_path_ref, pool, 1,
                 <<>>)
  ELSE req_check_loaded(req, m, read.cfg,
         apr_pool_userdata_set(pool, cache_key, read.cfg), 1,
         check_access(read.cfg, m.repos_name, m.repos_path, req.user,
                      m.authz_svn_type))

\* req_check_access going on with an empty access_conf, not cached, when
\* svn_config_read fails
req_check_cache_ignores_error(req, conf, pool, files, m, cache_key, read) ==
  IF cache_key \in DOMAIN pool
  THEN req_check_loaded(req, m, pool[cache_key], pool, 0,
         check_access(pool[cache_key], m.repos_name, m.repos_path, req.user,
                      m.authz_svn_type))
  ELSE IF read.svn_err
  THEN req_check_loaded(req, m, read.cfg, pool, 1,
         check_access(read.cfg, m.repos_name, m.repos_path, req.user,
                      m.authz_svn_type))
  ELSE req_check_loaded(req, m, read.cfg,
         apr_pool_userdata_set(pool, cache_key, read.cfg), 1,
         check_access(read.cfg, m.repos_name, m.repos_path, req.user,
                      m.authz_svn_type))

\* req_check_access storing what svn_config_read left under the key before
\* it tests svn_err
req_check_cache_stores_failure(req, conf, pool, files, m, cache_key, read) ==
  IF cache_key \in DOMAIN pool
  THEN req_check_loaded(req, m, pool[cache_key], pool, 0,
         check_access(pool[cache_key], m.repos_name, m.repos_path, req.user,
                      m.authz_svn_type))
  ELSE IF read.svn_err
  THEN ReqReturn(DECLINED, m.repos_path_ref, m.dest_repos_path_ref,
                 apr_pool_userdata_set(pool, cache_key, read.cfg), 1, <<>>)
  ELSE req_check_loaded(req, m, read.cfg,
         apr_pool_userdata_set(pool, cache_key, read.cfg), 1,
         check_access(read.cfg, m.repos_name, m.repos_path, req.user,
                      m.authz_svn_type))

\* "Retrieve/cache authorization file": m holds the locals set so far
req_check_cache(req, conf, pool, files, m, cache_key, read) ==
  IF cache_key \in DOMAIN pool
  THEN req_check_loaded(req, m, pool[cache_key], pool, 0,
         check_access(pool[cache_key], m.repos_name, m.repos_path, req.user,
                      m.authz_svn_type))
  ELSE IF read.svn_err
  THEN ReqReturn(DECLINED, m.repos_path_ref, m.dest_repos_path_ref, pool, 1,
                 <<>>)
  ELSE req_check_loaded(req, m, read.cfg,
         apr_pool_userdata_set(pool, cache_key, read.cfg), 1,
         check_access(read.cfg, m.repos_name, m.repos_path, req.user,
                      m.authz_svn_type))

req_check_retrieve(req, conf, pool, files, m) ==
  req_check_cache(req, conf, pool, files, m,
                  mod_authz_svn_key \o conf.access_file,
                  svn_config_read(files, conf.access_file))

\* the MOVE/COPY block once the Destination is inside base_path, dst being
\* what dav_svn_split_uri made of it
req_check_split_dest(req, conf, pool, files, m, dst, dest_repos_path) ==
  IF dst.dav_err
  THEN ReqReturn(HTTP_INTERNAL_SERVER_ERROR, m.repos_path_ref, NULL, pool,
                 0, <<>>)
  ELSE req_check_retrieve(req, conf, pool, files,
         [m EXCEPT !.dest_repos_name = dst.repos_name,
                   !.dest_repos_path = dest_repos_path,
                   !.dest_repos_path_ref =
                      apr_pstrcat(dst.repos_name, colon, dest_repos_path)])

\* the MOVE/COPY block without the test that the Destination is under
\* base_path
req_check_move_copy_any_location(req, conf, pool, files, m, dest_uri) ==
  IF dest_uri = NULL
  THEN ReqReturn(DECLINED, m.repos_path_ref, NULL, pool, 0, <<>>)
  ELSE req_check_split_dest(req, conf, pool, files, m,
         dav_svn_split_uri(dest_uri, conf.base_path),
         IF dav_svn_split_uri(dest_uri, conf.base_path).repos_path = NULL
         THEN NULL
         ELSE svn_path_join(slash,
                dav_svn_split_uri(dest_uri, conf.base_path).repos_path))

req_check_move_copy(req, conf, pool, files, m, dest_uri) ==
  IF dest_uri = NULL
  THEN ReqReturn(DECLINED, m.repos_path_ref, NULL, pool, 0, <<>>)
  ELSE IF strncmp(dest_uri, conf.base_path, strlen(conf.base_path)) # 0
  THEN ReqReturn(HTTP_BAD_REQUEST, m.repos_path_ref, NULL, pool, 0, <<>>)
  ELSE req_check_split_dest(req, conf, pool, files, m,
         dav_svn_split_uri(dest_uri, conf.base_path),
         IF dav_svn_split_uri(dest_uri, conf.base_path).repos_path = NULL
         THEN NULL
         ELSE svn_path_join(slash,
                dav_svn_split_uri(dest_uri, conf.base_path).repos_path))

\* req_check_access once r->uri is split: repos_path is NULL for MERGE and
\* absolute otherwise
req_check_paths(req, conf, pool, files, authz_svn_type, repos_name, repos_path) ==
  IF req.method_number = "M_MOVE" \/ req.method_number = "M_COPY"
  THEN req_check_move_copy(req, conf, pool, files,
         [authz_svn_type |-> authz_svn_type, repos_name |-> repos_name,
          repos_path |-> repos_path,
          repos_path_ref |-> apr_pstrcat(repos_name, colon, repos_path),
          dest_repos_name |-> NULL, dest_repos_path |-> NULL,
          dest_repos_path_ref |-> NULL],
         IF req.destination = NULL THEN NULL
         ELSE parsed_dest_uri_path(req.destination))
  ELSE req_check_retrieve(req, conf, pool, files,
         [authz_svn_type |-> authz_svn_type, repos_name |-> repos_name,
          repos_path |-> repos_path,
          repos_path_ref |-> apr_pstrcat(repos_name, colon, repos_path),
          dest_repos_name |-> NULL, dest_repos_path |-> NULL,
          dest_repos_path_ref |-> NULL])

\* req_check_access keeping the path of r->uri for MERGE
req_check_split_keeps_merge_path(req, conf, pool, files, authz_svn_type, src) ==
  IF src.dav_err
  THEN ReqReturn(HTTP_INTERNAL_SERVER_ERROR, NULL, NULL, pool, 0, <<>>)
  ELSE req_check_paths(req, conf, pool, files, authz_svn_type,
         src.repos_name,
         IF src.repos_path = NULL THEN NULL
         ELSE svn_path_join(slash, src.repos_path))

req_check_split(req, conf, pool, files, authz_svn_type, src) ==
  IF src.dav_err
  THEN ReqReturn(HTTP_INTERNAL_SERVER_ERROR, NULL, NULL, pool, 0, <<>>)
  ELSE req_check_paths(req, conf, pool, files, authz_svn_type,
         src.repos_name,
         IF req.method_number = "M_MERGE" \/ src.repos_path = NULL
         THEN NULL
         ELSE svn_path_join(slash, src.repos_path))

req_check_access(req, conf, pool, files) ==
  req_check_split(req, conf, pool, files,
                  authz_svn_type_of(req.method_number),
                  dav_svn_split_uri(req.uri, conf.base_path))

----------------------------------------------------------------------------
(* Hooks *)

ap_some_auth_required(req) == req.some_auth_required

ap_satisfies(req) == req.satisfies

apr_table_get(headers_in, key) == key \in headers_in

\* what a hook leaves when it returns: .ret is the int it returns, .branch
\* the return statement it took, the rest is req_check_access's
HookReturn(ret, pool, loads, checks, branch) ==
  [ret |-> ret, pool |-> pool, loads |-> loads, checks |-> checks,
   branch |-> branch]

\* access_checker answering HTTP_FORBIDDEN to every denial, whatever
\* conf->authoritative
access_checker_status_always_final(req, conf, c) ==
  IF c.ret = DECLINED
  THEN HookReturn(HTTP_FORBIDDEN, c.pool, c.loads, c.checks, "denied")
  ELSE IF c.ret # OK
  THEN HookReturn(c.ret, c.pool, c.loads, c.checks, "error")
  ELSE HookReturn(OK, c.pool, c.loads, c.checks, "granted")

\* access_checker from "If anon access is allowed, return OK" on, c being
\* what req_check_access left
access_checker_status(req, conf, c) ==
  IF c.ret = DECLINED
  THEN IF ~conf.authoritative
       THEN HookReturn(DECLINED, c.pool, c.loads, c.checks, "denied")
       ELSE HookReturn(HTTP_FORBIDDEN, c.pool, c.loads, c.checks, "denied")
  ELSE IF c.ret # OK
  THEN HookReturn(c.ret, c.pool, c.loads, c.checks, "error")
  ELSE HookReturn(OK, c.pool, c.loads, c.checks, "granted")

\* access_checker without the test for a credential header
access_checker_no_escalation(req, pool, files) ==
  IF ~req.conf.anonymous \/ req.conf.access_file = NULL
  THEN HookReturn(DECLINED, pool, 0, <<>>, "not_configured")
  ELSE IF ap_some_auth_required(req) /\ ap_satisfies(req) # SATISFY_ANY
  THEN HookReturn(DECLINED, pool, 0, <<>>, "auth_required")
  ELSE access_checker_status(req, req.conf,
         req_check_access(req, req.conf, pool, files))

\* access_checker without the test of conf->anonymous
access_checker_ignores_anonymous(req, pool, files) ==
  IF req.conf.access_file = NULL
  THEN HookReturn(DECLINED, pool, 0, <<>>, "not_configured")
  ELSE IF ap_some_auth_required(req) /\ ap_satisfies(req) # SATISFY_ANY
  THEN HookReturn(DECLINED, pool, 0, <<>>, "auth_required")
  ELSE IF /\ ap_some_auth_required(req)
          /\ apr_table_get(req.headers_in,
                           IF req.proxyreq = PROXYREQ_PROXY
                           THEN "Proxy-Authorization"
                           ELSE "Authorization")
  THEN HookReturn(HTTP_FORBIDDEN, pool, 0, <<>>, "credentials")
  ELSE access_checker_status(req, req.conf,
         req_check_access(req, req.conf, pool, files))

access_checker(req, pool, files) ==
  IF ~req.conf.anonymous \/ req.conf.access_file = NULL
  THEN HookReturn(DECLINED, pool, 0, <<>>, "not_configured")
  ELSE IF ap_some_auth_required(req) /\ ap_satisfies(req) # SATISFY_ANY
  THEN HookReturn(DECLINED, pool, 0, <<>>, "auth_required")
  ELSE IF /\ ap_some_auth_required(req)
          /\ apr_table_get(req.headers_in,
                           IF req.proxyreq = PROXYREQ_PROXY
                           THEN "Proxy-Authorization"
                           ELSE "Authorization")
  THEN HookReturn(HTTP_FORBIDDEN, pool, 0, <<>>, "credentials")
  ELSE access_checker_status(req, req.conf,
         req_check_access(req, req.conf, pool, files))

\* ap_note_auth_failure(r): the challenge is put in r->err_headers_out
ap_note_auth_failure(req) ==
  [req EXCEPT !.err_headers_out = @ \cup {"WWW-Authenticate"}]

\* what auth_checker leaves: h as for access_checker, and the request
AuthReturn(h, req) ==
  [ret |-> h.ret, pool |-> h.pool, loads |-> h.loads, checks |-> h.checks,
   branch |-> h.branch, req |-> req]

\* auth_checker answering a denial as access_checker does: HTTP_FORBIDDEN
\* without a challenge when authoritative, DECLINED otherwise
auth_checker_status_forbidden(req, conf, c) ==
  IF c.ret = DECLINED
  THEN IF conf.authoritative
       THEN AuthReturn(HookReturn(HTTP_FORBIDDEN, c.pool, c.loads, c.checks,
                                  "denied"), req)
       ELSE AuthReturn(HookReturn(DECLINED, c.pool, c.loads, c.checks,
                                  "denied"), req)
  ELSE IF c.ret # OK
  THEN AuthReturn(HookReturn(c.ret, c.pool, c.loads, c.checks, "error"), req)
  ELSE AuthReturn(HookReturn(OK, c.pool, c.loads, c.checks, "granted"), req)

\* auth_checker from its req_check_access call on
auth_checker_status(req, conf, c) ==
  IF c.ret = DECLINED
  THEN IF conf.authoritative
       THEN AuthReturn(HookReturn(HTTP_UNAUTHORIZED, c.pool, c.loads,
                                  c.checks, "denied"),
                       ap_note_auth_failure(req))
       ELSE AuthReturn(HookReturn(DECLINED, c.pool, c.loads, c.checks,
                                  "denied"), req)
  ELSE IF c.ret # OK
  THEN AuthReturn(HookReturn(c.ret, c.pool, c.loads, c.checks, "error"), req)
  ELSE AuthReturn(HookReturn(OK, c.pool, c.loads, c.checks, "granted"), req)

auth_checker(req, pool, files) ==
  IF req.conf.access_file = NULL
  THEN AuthReturn(HookReturn(DECLINED, pool, 0, <<>>, "not_configured"), req)
  ELSE auth_checker_status(req, req.conf,
         req_check_access(req, req.conf, pool, files))

----------------------------------------------------------------------------
(* Access files *)

repos_r == <<"r">>
repos_s == <<"s">>
path_a == <<"/", "a">>
path_a_b == <<"/", "a", "/", "b">>
path_ab == <<"/", "a", "b">>

Rule(name, value) == [name |-> name, value |-> value]
Section(name, lines) == [name |-> name, lines |-> lines]

\* [groups] devs = bob,alice
GroupsSection ==
  Section(groups, <<Rule(devs, bob \o <<",">> \o alice)>>)

SectionNames ==
  {slash, path_a, path_a_b, path_ab,
   repos_r \o colon \o slash, repos_r \o colon \o path_a,
   repos_r \o colon \o path_a_b, repos_s \o colon \o path_a}

Principals == {star, alice, at_devs}
Values == {<<>>, <<"r">>, <<"r", "w">>}
RuleLines == {Rule(n, v) : n \in Principals, v \in Values}

\* the rule lines of a file in file order, each with the section it is under:
\* the lines of one section are contiguous and name a principal once
FlatFiles ==
  {f \in UNION {[1..k -> SectionNames \X RuleLines] : k \in 0..MaxRules} :
     \A i, j \in 1..Len(f) :
       (i < j /\ f[i][1] = f[j][1]) =>
         /\ f[i][2].name # f[j][2].name
         /\ \A k \in i..j : f[k][1] = f[i][1]}

RECURSIVE GroupRules(_)
GroupRules(f) ==
  IF f = <<>> THEN <<>>
  ELSE LET g == GroupRules(SubSeq(f, 1, Len(f) - 1))
           e == f[Len(f)]
       IN IF g # <<>> /\ g[Len(g)].name = e[1]
          THEN [g EXCEPT ![Len(g)].lines = Append(@, e[2])]
          ELSE Append(g, Section(e[1], <<e[2]>>))

\* the parsed access files of the resolver's specification
Policies == {GroupRules(f) \o <<GroupsSection>> : f \in FlatFiles}

Users == {NULL, alice, carol}
QueryPaths == {NULL, slash, path_a, path_a_b}
Queries ==
  [repos_name : {repos_r}, repos_path : QueryPaths, user : Users,
   required_access : {AUTHZ_SVN_READ, AUTHZ_SVN_WRITE, AUTHZ_SVN_READ_TREE}]

\* the parsed access files of the hooks' specification
OpenPolicy == <<Section(slash, <<Rule(star, <<"r", "w">>)>>)>>
ReadOnlyPolicy ==
  <<Section(slash, <<Rule(star, <<"r">>)>>),
    Section(repos_r \o colon \o path_a, <<Rule(at_devs, <<"r", "w">>)>>),
    GroupsSection>>
PrivatePolicy ==
  <<Section(slash, <<Rule(alice, <<"r", "w">>)>>),
    Section(path_a_b, <<Rule(alice, <<"r">>)>>)>>
HookPolicies == {OpenPolicy, ReadOnlyPolicy, PrivatePolicy}

file1 == <<"f", "1">>
file2 == <<"f", "2">>
svn_base == <<"/", "s", "v", "n">>

RequestMethods == {"M_GET", "M_COPY", "M_MOVE", "M_PUT", "M_MERGE", "M_LOCK"}
RequestUris ==
  {svn_base, svn_base \o slash \o repos_r,
   svn_base \o slash \o repos_r \o path_a,
   svn_base \o slash \o repos_r \o <<"/", "!">>}
Destinations ==
  {NULL, svn_base, <<"/", "w">> \o slash \o repos_r \o path_a,
   svn_base \o slash \o repos_r \o path_a_b,
   svn_base \o slash \o repos_r \o path_ab}
HeaderSets == {{}, {"Authorization"}, {"Proxy-Authorization"}}

Configs ==
  [authoritative : BOOLEAN, anonymous : BOOLEAN, base_path : {svn_base},
   access_file : {NULL, file1, file2}]

\* a Destination header comes with MOVE and COPY
RequestsOf(methods, destinations) ==
  [method_number : methods, uri : RequestUris, destination : destinations,
   headers_in : HeaderSets, proxyreq : {PROXYREQ_NONE, PROXYREQ_PROXY},
   user : {NULL}, some_auth_required : BOOLEAN,
   satisfies : {SATISFY_ALL, SATISFY_ANY, SATISFY_NOSPEC}, conf : Configs,
   err_headers_out : {{}}]

Requests ==
  RequestsOf(RequestMethods \ {"M_MOVE", "M_COPY"}, {NULL})
  \cup RequestsOf({"M_MOVE", "M_COPY"}, Destinations)

NoRequest ==
  [method_number |-> "M_GET", uri |-> svn_base, destination |-> NULL,
   headers_in |-> {}, proxyreq |-> PROXYREQ_NONE, user |-> NULL,
   some_auth_required |-> FALSE, satisfies |-> SATISFY_NOSPEC,
   conf |-> [authoritative |-> TRUE, anonymous |-> TRUE,
             base_path |-> svn_base, access_file |-> NULL],
   err_headers_out |-> {}]
NoLog == [hook |-> "none", loads |-> 0, checks |-> <<>>, branch |-> "none"]
NoQuery ==
  [repos_name |-> repos_r, repos_path |-> NULL, user |-> NULL,
   required_access |-> AUTHZ_SVN_NONE]
NoResult ==
  [access |-> 0, levels |-> <<>>, enumerated |-> <<>>,
   subtree_run |-> FALSE, subtree |-> <<>>]

----------------------------------------------------------------------------
(* The resolver: check_access applied to a loaded access file *)

cache_key1 == mod_authz_svn_key \o file1

InitResolve ==
  /\ \E cfg \in Policies :
       /\ disk = (file1 :> [readable |-> TRUE, cfg |-> cfg])
       /\ conn_pool = (cache_key1 :> cfg)
  /\ query \in Queries
  /\ result = NoResult
  /\ pc = "query"
  /\ r = NoRequest
  /\ status = DECLINED
  /\ hooklog = NoLog
  /\ NoMerge

CheckAccess ==
  /\ pc = "query"
  /\ result' = check_access(conn_pool[cache_key1], query.repos_name,
                            query.repos_path, query.user,
                            query.required_access)
  /\ pc' = "answered"
  /\ UNCHANGED <<disk, conn_pool, r, status, hooklog, query, merge_vars>>

NextResolve == CheckAccess

SpecResolve == InitResolve /\ [][NextResolve]_vars

----------------------------------------------------------------------------
(* The hooks in the host's request pipeline *)

Init ==
  /\ \E cfg \in HookPolicies :
       disk = (file1 :> [readable |-> TRUE, cfg |-> cfg])
              @@ (file2 :> [readable |-> FALSE, cfg |-> <<>>])
  /\ conn_pool = <<>>
  /\ r \in Requests
  /\ pc = "access_checker"
  /\ status = DECLINED
  /\ hooklog = NoLog
  /\ query = NoQuery
  /\ result = NoResult
  /\ NoMerge

LogOf(hook, h) ==
  [hook |-> hook, loads |-> h.loads, checks |-> h.checks, branch |-> h.branch]

\* ap_process_request_internal after ap_run_access_checker: with Satisfy All
\* a status other than OK or DECLINED ends the request and authentication
\* follows when it is required; with Satisfy Any such a status sends the
\* request to authentication when it is required, and OK or DECLINED lets the
\* request through
after_access_checker(req, ret) ==
  IF ap_satisfies(req) = SATISFY_ANY
  THEN IF ret \in {OK, DECLINED} THEN "handler"
       ELSE IF ap_some_auth_required(req) THEN "check_user_id"
       ELSE "die"
  ELSE IF ret \notin {OK, DECLINED} THEN "die"
       ELSE IF ap_some_auth_required(req) THEN "check_user_id"
       ELSE "handler"

AccessChecker ==
  /\ pc = "access_checker"
  /\ LET h == access_checker(r, conn_pool, disk)
     IN /\ status' = h.ret
        /\ conn_pool' = h.pool
        /\ hooklog' = LogOf("access_checker", h)
        /\ pc' = after_access_checker(r, h.ret)
  /\ UNCHANGED <<disk, r, query, result, merge_vars>>

\* ap_run_check_user_id: the host validates the credential of the request
\* and sets r->user, or answers with a challenge
CheckUserId ==
  /\ pc = "check_user_id"
  /\ \/ /\ apr_table_get(r.headers_in,
                         IF r.proxyreq = PROXYREQ_PROXY
                         THEN "Proxy-Authorization" ELSE "Authorization")
        /\ \E u \in {alice, carol} : r' = [r EXCEPT !.user = u]
        /\ pc' = "auth_checker"
        /\ UNCHANGED status
     \/ /\ status' = HTTP_UNAUTHORIZED
        /\ pc' = "die"
        /\ UNCHANGED r
  /\ hooklog' = NoLog
  /\ UNCHANGED <<disk, conn_pool, query, result, merge_vars>>

\* ap_run_auth_checker: OK lets the request through, DECLINED leaves the
\* decision to the other modules, any other status ends the request
AuthChecker ==
  /\ pc = "auth_checker"
  /\ LET h == auth_checker(r, conn_pool, disk)
     IN /\ status' = h.ret
        /\ conn_pool' = h.pool
        /\ hooklog' = LogOf("auth_checker", h)
        /\ pc' = IF h.ret = OK THEN "handler"
                 ELSE IF h.ret = DECLINED THEN "other_modules"
                 ELSE "die"
        /\ r' = h.req
  /\ UNCHANGED <<disk, query, result, merge_vars>>

Next == AccessChecker \/ CheckUserId \/ AuthChecker

Spec == Init /\ [][Next]_vars

----------------------------------------------------------------------------
(* Vocabulary of the properties: what the access file says, stated on its *)
(* text and not through the resolver                                      *)

Range(f) == {f[i] : i \in DOMAIN f}

Letter(required_access) ==
  IF required_access = AUTHZ_SVN_WRITE THEN "w" ELSE "r"

\* the path itself, every proper prefix that ends before a separator, and the
\* root
Ancestors(path) ==
  {slash} \cup {SubSeq(path, 1, k) : k \in {Len(path)} \cup
                  {j \in 1..(Len(path) - 1) : path[j + 1] = "/"}}

\* p is base or lies beneath it, on a path-segment boundary
AtOrBeneath(p, base) ==
  /\ Len(p) > 0 /\ p[1] = "/"
  /\ \/ p = base
     \/ base = slash
     \/ /\ Len(p) > Len(base)
        /\ SubSeq(p, 1, Len(base)) = base
        /\ p[Len(base) + 1] = "/"

\* the section name, without an optional `repos_name:`, is in the subtree of
\* base
InSubtree(name, repos_name, base) ==
  \/ AtOrBeneath(name, base)
  \/ /\ Len(name) > Len(repos_name) + 1
     /\ SubSeq(name, 1, Len(repos_name) + 1) = repos_name \o colon
     /\ AtOrBeneath(SubSeq(name, Len(repos_name) + 2, Len(name)), base)

\* user is literally one of the comma-separated entries of the definition of
\* group in the groups section
IsMember(cfg, group, user) ==
  \E l \in Range(SectionLines(cfg, groups)) :
    /\ l.name = group
    /\ \E i \in 1..Len(l.value) :
         /\ i = 1 \/ l.value[i - 1] = ","
         /\ i + Len(user) - 1 <= Len(l.value)
         /\ SubSeq(l.value, i, i + Len(user) - 1) = user
         /\ i + Len(user) - 1 = Len(l.value) \/ l.value[i + Len(user)] = ","

\* the rule line applies to the principal
Matches(cfg, line, user) ==
  \/ line.name = star
  \/ /\ user # NULL
     /\ IF line.name[1] = "@" THEN IsMember(cfg, Tail(line.name), user)
        ELSE line.name = user

\* some line of the section applies to the principal
Mentions(cfg, section, user) ==
  \E l \in Range(SectionLines(cfg, section)) : Matches(cfg, l, user)

\* some line of the section that applies to the principal has the letter
Grants(cfg, section, user, required_access) ==
  \E l \in Range(SectionLines(cfg, section)) :
    /\ Matches(cfg, l, user)
    /\ Letter(required_access) \in Range(l.value)

Qualified(repos_name, path) == repos_name \o colon \o path

\* the ancestors with a qualified or generic section that is decisive
DecisiveLevels(cfg, repos_name, path, user) ==
  {a \in Ancestors(path) :
     Mentions(cfg, Qualified(repos_name, a), user) \/ Mentions(cfg, a, user)}

Deepest(S) == CHOOSE a \in S : \A b \in S : Len(b) <= Len(a)

\* the section that decides at a decisive level
DecidingSection(cfg, repos_name, a, user) ==
  IF Mentions(cfg, Qualified(repos_name, a), user)
  THEN Qualified(repos_name, a) ELSE a

RECURSIVE SeqOfSet(_)
SeqOfSet(S) ==
  IF S = {} THEN <<>>
  ELSE LET x == CHOOSE y \in S : TRUE IN <<x>> \o SeqOfSet(S \ {x})

\* cfg with the sections named in names removed (lines empty) or replaced by
\* sections of these lines
WithSections(cfg, names, lines) ==
  SelectSeq(cfg, LAMBDA sec : sec.name \notin names)
  \o (IF lines = <<>> THEN <<>>
      ELSE [i \in 1..Cardinality(names) |->
              Section(SeqOfSet(names)[i], lines)])

\* cfg without the sections in which no line applies to the principal
WithoutSilent(cfg, user) ==
  SelectSeq(cfg, LAMBDA sec : sec.name = groups \/ Mentions(cfg, sec.name, user))

Cfg == conn_pool[cache_key1]
Answered == pc = "answered" /\ query.repos_path # NULL
WalkQuery ==
  Answered /\ query.required_access \in {AUTHZ_SVN_READ, AUTHZ_SVN_WRITE}
Levels == DecisiveLevels(Cfg, query.repos_name, query.repos_path, query.user)
Allowed == result.access # 0

----------------------------------------------------------------------------
(* Properties of the resolver, under SpecResolve *)

\* the sections of the ancestors strictly shallower than the deepest decisive one
ShallowerNames ==
  UNION {{a, Qualified(query.repos_name, a)} :
           a \in {b \in Ancestors(query.repos_path) :
                    Len(b) < Len(Deepest(Levels))}}

EditLines ==
  {<<>>, <<Rule(star, <<>>)>>, <<Rule(star, <<"r", "w">>)>>}

\* C1: depth precedence. When some ancestor of the path has a decisive
\* section, check_access answers what the deepest such ancestor says (its
\* qualified section when that one is decisive, its generic section
\* otherwise), and removing the sections of the strictly shallower ancestors,
\* or replacing them by a denial or by a grant for everyone, leaves the
\* answer unchanged.
C1_DepthPrecedence ==
  (WalkQuery /\ Levels # {}) =>
    /\ Allowed <=>
         Grants(Cfg,
                DecidingSection(Cfg, query.repos_name, Deepest(Levels),
                                query.user),
                query.user, query.required_access)
    /\ \A lines \in EditLines :
         check_access(WithSections(Cfg, ShallowerNames, lines),
                      query.repos_name, query.repos_path, query.user,
                      query.required_access).access = result.access

\* a deeper section denies what the root grants to everyone, and the other
\* way round
C1_Witness ==
  /\ WalkQuery /\ Levels # {}
  /\ Len(Deepest(Levels)) > 1
  /\ ~Allowed
  /\ Grants(Cfg, slash, query.user, query.required_access)

\* C2: qualified over generic at equal depth. At every level the walk
\* evaluates, a decisive qualified section ends the walk there with its own
\* answer and the generic section of the level is not enumerated; the generic
\* section is enumerated, and decides when it is decisive, only when the
\* qualified one is absent or not decisive.
C2_QualifiedOverGeneric ==
  Answered =>
    \A i \in 1..Len(result.levels) :
      LET a == result.levels[i]
          q == Qualified(query.repos_name, a)
      IN IF Mentions(Cfg, q, query.user)
         THEN /\ i = Len(result.levels)
              /\ a \notin Range(result.enumerated)
              /\ WalkQuery =>
                   (Allowed <=>
                      Grants(Cfg, q, query.user, query.required_access))
         ELSE /\ a \in Range(result.enumerated)
              /\ Mentions(Cfg, a, query.user) =>
                   /\ i = Len(result.levels)
                   /\ WalkQuery =>
                        (Allowed <=>
                           Grants(Cfg, a, query.user, query.required_access))

\* the qualified section denies what the generic section of the same level
\* grants
C2_Witness ==
  /\ WalkQuery /\ Levels # {}
  /\ Mentions(Cfg, Qualified(query.repos_name, Deepest(Levels)), query.user)
  /\ Grants(Cfg, Deepest(Levels), query.user, query.required_access)
  /\ ~Allowed

\* C3: default deny. When no section, qualified or generic, of the path or of
\* any of its ancestors up to the root has a line that applies to the
\* principal, check_access denies, the root and the anonymous principal
\* included.
C3_DefaultDeny ==
  (Answered /\ Levels = {}) => ~Allowed

\* an anonymous query on the root of a file that has sections for the root
C3_Witness ==
  /\ WalkQuery /\ Levels = {} /\ ~Allowed
  /\ query.user = NULL /\ query.repos_path = slash
  /\ HasSection(Cfg, slash)
  /\ HasSection(Cfg, Qualified(query.repos_name, slash))

\* C4: an incomplete rule decides and denies. When the section that decides
\* at the deepest decisive level has lines for the principal and none of them
\* has the required letter, the walk stops at that level and denies, also
\* when that section is the qualified one and the generic section of the
\* level grants the permission to the principal.
C4_IncompleteRuleDenies ==
  (WalkQuery /\ Levels # {}
   /\ ~Grants(Cfg, DecidingSection(Cfg, query.repos_name, Deepest(Levels),
                                   query.user),
              query.user, query.required_access)) =>
    /\ ~Allowed
    /\ result.levels[Len(result.levels)] = Deepest(Levels)

\* the qualified section grants read only, the generic one grants write
C4_Witness ==
  /\ WalkQuery /\ Levels # {} /\ ~Allowed
  /\ query.required_access = AUTHZ_SVN_WRITE
  /\ Grants(Cfg, Qualified(query.repos_name, Deepest(Levels)), query.user,
            AUTHZ_SVN_READ)
  /\ Grants(Cfg, Deepest(Levels), query.user, AUTHZ_SVN_WRITE)

\* [/] * = r   [/a] alice = r
PublicLocked ==
  <<Section(slash, <<Rule(star, <<"r">>)>>),
    Section(path_a, <<Rule(alice, <<"r">>)>>), GroupsSection>>

\* C5: a silent section never decides. check_access answers, after walking
\* the same levels, what it answers on the file without the sections in
\* which no line applies to the principal; carol reads beneath a section
\* that names only alice when an ancestor grants read to everyone.
C5_SilentSection ==
  Answered =>
    /\ LET c == check_access(WithoutSilent(Cfg, query.user),
                             query.repos_name, query.repos_path, query.user,
                             query.required_access)
       IN c.access = result.access /\ c.levels = result.levels
    /\ (Cfg = PublicLocked /\ query.user = carol
        /\ query.repos_path = path_a_b
        /\ query.required_access = AUTHZ_SVN_READ) => Allowed

C5_Witness ==
  /\ Answered /\ Cfg = PublicLocked /\ query.user = carol
  /\ query.repos_path = path_a_b /\ query.required_access = AUTHZ_SVN_READ
  /\ Allowed /\ result.levels = <<path_a_b, path_a, slash>>

\* C6: a grant wins inside one section. When the walk stops at a decisive
\* section (the last one it enumerated), it allows iff some line of that
\* section that applies to the principal, by name, by * or by a group, has
\* the required letter, whatever the other lines of the section say.
C6_GrantWins ==
  (WalkQuery /\ Levels # {}) =>
    (Allowed <=>
       \E l \in Range(SectionLines(Cfg,
                        result.enumerated[Len(result.enumerated)])) :
         /\ Matches(Cfg, l, query.user)
         /\ Letter(query.required_access) \in Range(l.value))

\* * = rw together with alice = : alice may write
C6_Witness ==
  /\ WalkQuery /\ Allowed /\ query.user = alice
  /\ query.required_access = AUTHZ_SVN_WRITE
  /\ SectionLines(Cfg, result.enumerated[Len(result.enumerated)])
       = <<Rule(star, <<"r", "w">>), Rule(alice, <<>>)>>

\* some line of the section applies to the principal and none has the letter
Denies(cfg, section, user, required_access) ==
  Mentions(cfg, section, user) /\ ~Grants(cfg, section, user, required_access)

\* C7: the ReadTree decision. A ReadTree query is denied iff the Read walk on
\* the base path denies or some section in the subtree of the base path,
\* qualified with the repository or generic, denies Read on its own; the
\* subtree check is not run when the walk denies.
C7_ReadTree ==
  (Answered /\ query.required_access = AUTHZ_SVN_READ_TREE) =>
    LET walk_read == check_access(Cfg, query.repos_name, query.repos_path,
                                  query.user, AUTHZ_SVN_READ).access
    IN /\ ~Allowed <=>
            \/ walk_read = 0
            \/ \E sec \in Range(Cfg) :
                 /\ InSubtree(sec.name, query.repos_name, query.repos_path)
                 /\ Denies(Cfg, sec.name, query.user, AUTHZ_SVN_READ)
       /\ result.subtree_run => walk_read # 0

\* C8: the subtree check examines a section only if its path, without an
\* optional `repository:`, is the base path or beneath it on a path-segment
\* boundary, so that the section of a sibling never vetoes.
C8_SubtreeSelection ==
  (Answered /\ result.subtree_run) =>
    \A name \in Range(result.subtree) :
      InSubtree(name, query.repos_name, query.repos_path)

----------------------------------------------------------------------------
(* Properties of the hooks, under Spec *)

CredentialHeader(req) ==
  IF req.proxyreq = PROXYREQ_PROXY THEN "Proxy-Authorization"
  ELSE "Authorization"

\* authentication is required, Satisfy Any is in effect and the request
\* carries a credential
Escalating(req) ==
  /\ req.some_auth_required
  /\ req.satisfies = SATISFY_ANY
  /\ CredentialHeader(req) \in req.headers_in

\* the engine is configured to run the anonymous check
AnonymousConfigured(req) ==
  req.conf.anonymous /\ req.conf.access_file # NULL

\* the state access_checker left
AnonymousRan == hooklog.hook = "access_checker"

C10_AnonymousDecision ==
  (AnonymousRan /\ hooklog.checks # <<>>) =>
    /\ \A c \in Range(hooklog.checks) : c.user = NULL
    /\ IF \A c \in Range(hooklog.checks) : c.access # 0
       THEN status = OK /\ pc = "handler"
       ELSE status = (IF r.conf.authoritative THEN HTTP_FORBIDDEN
                      ELSE DECLINED)

\* a policy denial with AuthzSVNAuthoritative off
C10_Witness ==
  /\ AnonymousRan /\ hooklog.checks # <<>>
  /\ \E c \in Range(hooklog.checks) : c.access = 0
  /\ ~r.conf.authoritative
  /\ status = DECLINED

\* the state auth_checker left
AuthenticatedRan == hooklog.hook = "auth_checker"

\* C11: when auth_checker evaluates the policy it does so for the
\* authenticated principal, on the queries of the classifier (source with the
\* method's permission, then the destination of a MOVE or COPY with Write);
\* an allowed decision returns OK; a denied decision returns
\* HTTP_UNAUTHORIZED with the challenge noted iff AuthzSVNAuthoritative is
\* on, and DECLINED without a challenge iff it is off.
C11_AuthenticatedDecision ==
  (AuthenticatedRan /\ hooklog.checks # <<>>) =>
    /\ r.user # NULL
    /\ \A c \in Range(hooklog.checks) : c.user = r.user
    /\ hooklog.checks[1].required_access = authz_svn_type_of(r.method_number)
    /\ hooklog.checks[1].access =
         check_access(disk[r.conf.access_file].cfg,
                      hooklog.checks[1].repos_name,
                      hooklog.checks[1].repos_path, r.user,
                      authz_svn_type_of(r.method_number)).access
    /\ Len(hooklog.checks) = 2 =>
         /\ r.method_number \in {"M_MOVE", "M_COPY"}
         /\ hooklog.checks[2].required_access = AUTHZ_SVN_WRITE
    /\ (r.method_number \in {"M_MOVE", "M_COPY"}
          /\ hooklog.checks[1].access # 0) => Len(hooklog.checks) = 2
    /\ IF \A c \in Range(hooklog.checks) : c.access # 0
       THEN /\ status = OK /\ pc = "handler"
            /\ r.err_headers_out = {}
       ELSE /\ r.conf.authoritative =>
                 /\ status = HTTP_UNAUTHORIZED
                 /\ "WWW-Authenticate" \in r.err_headers_out
                 /\ pc = "die"
            /\ ~r.conf.authoritative =>
                 /\ status = DECLINED
                 /\ r.err_headers_out = {}
                 /\ pc = "other_modules"

\* a policy denial of an authenticated principal with
\* AuthzSVNAuthoritative on
C11_Witness ==
  /\ AuthenticatedRan /\ hooklog.checks # <<>>
  /\ \E c \in Range(hooklog.checks) : c.access = 0
  /\ r.conf.authoritative
  /\ status = HTTP_UNAUTHORIZED

\* access_checker is not to give an opinion on the request
AnonymousSkipped(req) ==
  \/ ~req.conf.anonymous
  \/ req.conf.access_file = NULL
  \/ req.some_auth_required /\ req.satisfies # SATISFY_ANY

\* C12: whenever AuthzSVNAnonymous is off, or no access file is configured,
\* or authentication is required and Satisfy Any is not in effect,
\* access_checker returns DECLINED without reading the access file, without
\* a check_access call and without touching the connection's cache, whatever
\* the method, the paths, the access file, the credential headers and
\* AuthzSVNAuthoritative.
C12_AnonymousNoOpinion ==
  (AnonymousRan /\ AnonymousSkipped(r)) =>
    /\ status = DECLINED
    /\ hooklog.loads = 0 /\ hooklog.checks = <<>>
    /\ conn_pool = <<>>

\* access_checker gave no opinion, with AuthzSVNAnonymous off, on a request
\* carrying a credential that it would reject were it to evaluate the
\* policy
C12_Witness ==
  /\ AnonymousRan /\ ~r.conf.anonymous /\ r.conf.authoritative
  /\ r.headers_in # {}
  /\ status = DECLINED
  /\ access_checker([r EXCEPT !.conf.anonymous = TRUE,
                              !.some_auth_required = FALSE],
                    <<>>, disk).ret = HTTP_FORBIDDEN

\* a hook has just returned
HookRan == hooklog.hook \in {"access_checker", "auth_checker"}

MoveOrCopy(req) == req.method_number \in {"M_MOVE", "M_COPY"}

\* C13: a hook lets a MOVE or COPY through only when the source query
\* (Write for MOVE, ReadTree for COPY) and a Write query on the path and
\* repository of the Destination were both made and allowed; the
\* destination is queried only after the source passed, always with Write
\* and without subtree check; source allowed and destination denied is a
\* denial.
C13_MoveCopyBoth ==
  (HookRan /\ MoveOrCopy(r)) =>
    /\ status = OK =>
         /\ Len(hooklog.checks) = 2
         /\ \A c \in Range(hooklog.checks) : c.access # 0
    /\ hooklog.checks # <<>> =>
         /\ hooklog.checks[1].required_access =
              (IF r.method_number = "M_MOVE" THEN AUTHZ_SVN_WRITE
               ELSE AUTHZ_SVN_READ_TREE)
         /\ Len(hooklog.checks) = 2 <=> hooklog.checks[1].access # 0
    /\ Len(hooklog.checks) = 2 =>
         /\ hooklog.checks[2].required_access = AUTHZ_SVN_WRITE
         /\ ~hooklog.checks[2].subtree_run
         /\ hooklog.checks[2].user = r.user
         /\ r.destination = r.conf.base_path \o slash
                              \o hooklog.checks[2].repos_name
                              \o hooklog.checks[2].repos_path
         /\ hooklog.checks[2].access =
              check_access(disk[r.conf.access_file].cfg,
                           hooklog.checks[2].repos_name,
                           hooklog.checks[2].repos_path, r.user,
                           AUTHZ_SVN_WRITE).access
         /\ hooklog.checks[2].access = 0 =>
              status \in {DECLINED, HTTP_FORBIDDEN, HTTP_UNAUTHORIZED}

\* a COPY whose source passes ReadTree and whose destination is denied
\* Write, although ReadTree would pass there
C13_Witness ==
  /\ HookRan /\ r.method_number = "M_COPY"
  /\ Len(hooklog.checks) = 2
  /\ hooklog.checks[1].access # 0
  /\ hooklog.checks[2].access = 0
  /\ status # OK
  /\ check_access(disk[r.conf.access_file].cfg,
                  hooklog.checks[2].repos_name, hooklog.checks[2].repos_path,
                  r.user, AUTHZ_SVN_READ_TREE).access # 0

----------------------------------------------------------------------------
(* Properties of the resolver on a path that is not given, under SpecResolve *)

\* C14: a check_access call without path (NULL) is allowed, for every access
\* file, repository, principal (NULL included) and required access (Read,
\* Write, ReadTree), with no section enumerated, no level walked and no
\* subtree check.
C14_NullPathAllows ==
  (pc = "answered" /\ query.repos_path = NULL) =>
    /\ result.access # 0
    /\ result.enumerated = <<>> /\ result.levels = <<>>
    /\ ~result.subtree_run /\ result.subtree = <<>>

\* a ReadTree query without path by the anonymous principal on an access
\* file that denies it Read on the root and on a section beneath
C14_Witness ==
  /\ pc = "answered" /\ query.repos_path = NULL /\ query.user = NULL
  /\ query.required_access = AUTHZ_SVN_READ_TREE
  /\ result.access # 0
  /\ Mentions(Cfg, slash, NULL) /\ ~Grants(Cfg, slash, NULL, AUTHZ_SVN_READ)
  /\ Mentions(Cfg, path_a, NULL) /\ ~Grants(Cfg, path_a, NULL, AUTHZ_SVN_READ)

----------------------------------------------------------------------------
(* Properties of the hooks on particular requests, under Spec *)

\* the hook went as far as req_check_access
Evaluated == HookRan /\ hooklog.branch \in {"granted", "denied", "error"}

\* C15: for MERGE the path of the request uri is replaced by no path (NULL)
\* before the query: once the access file is loaded, the one query of a
\* MERGE is a Write query without path, it is allowed and the hook returns
\* OK, for every principal and access file, also when Write is denied on the
\* path of the uri and all its ancestors; a MERGE is denied only when the
\* access file cannot be read.
C15_MergeIgnoresPath ==
  (Evaluated /\ r.method_number = "M_MERGE") =>
    /\ hooklog.checks # <<>> =>
         /\ Len(hooklog.checks) = 1
         /\ hooklog.checks[1].repos_path = NULL
         /\ hooklog.checks[1].required_access = AUTHZ_SVN_WRITE
         /\ hooklog.checks[1].user = r.user
         /\ hooklog.checks[1].access # 0
         /\ status = OK
    /\ hooklog.branch = "denied" =>
         /\ hooklog.checks = <<>>
         /\ ~disk[r.conf.access_file].readable

\* a MERGE let through on a uri whose path the access file denies Write on
C15_Witness ==
  /\ Evaluated /\ r.method_number = "M_MERGE"
  /\ r.uri = svn_base \o slash \o repos_r \o path_a
  /\ status = OK
  /\ check_access(disk[r.conf.access_file].cfg, repos_r, path_a, r.user,
                  AUTHZ_SVN_WRITE).access = 0

----------------------------------------------------------------------------
(* check_access on access files that differ in their group definitions *)

ops == <<"o", "p", "s">>
at_ops == <<"@">> \o ops
Alice == <<"A", "l", "i", "c", "e">>
comma == <<",">>

\* definitions of the group devs: with the user, with the user in another
\* case, with a shorter and a longer name, with a reference to the group ops
DevsDefinitions ==
  {bob \o comma \o alice, Alice, at_ops, ops, bob \o comma \o at_ops,
   <<"a", "l", "i", "c">>, <<"m">> \o alice, <<>>}

\* definitions of the group ops
OpsDefinitions == {alice, carol \o comma \o alice, carol, devs}

\* the lines of the section of /a
GroupRuleLines ==
  {<<Rule(at_devs, <<"r", "w">>)>>,
   <<Rule(at_ops, <<"r">>)>>,
   <<Rule(at_devs, <<>>), Rule(at_ops, <<"r", "w">>)>>,
   <<Rule(at_ops, <<>>), Rule(at_devs, <<"r", "w">>)>>}

GroupPolicies ==
  {<<Section(slash, <<Rule(star, <<"r">>)>>),
     Section(path_a, lines),
     Section(groups, <<Rule(devs, d), Rule(ops, o)>>)>> :
     lines \in GroupRuleLines, d \in DevsDefinitions, o \in OpsDefinitions}

GroupQueries ==
  [repos_name : {repos_r}, repos_path : {path_a},
   user : {NULL, alice, carol, ops},
   required_access : {AUTHZ_SVN_READ, AUTHZ_SVN_WRITE}]

InitGroups ==
  /\ \E cfg \in GroupPolicies :
       /\ disk = (file1 :> [readable |-> TRUE, cfg |-> cfg])
       /\ conn_pool = (cache_key1 :> cfg)
  /\ query \in GroupQueries
  /\ result = NoResult
  /\ pc = "query"
  /\ r = NoRequest
  /\ status = DECLINED
  /\ hooklog = NoLog
  /\ NoMerge

SpecGroups == InitGroups /\ [][NextResolve]_vars

----------------------------------------------------------------------------
(* A connection serving one request after the other, the access files     *)
(* changing on disk meanwhile                                             *)

\* what a location's access file may be on disk
FileStates ==
  {[readable |-> TRUE, cfg |-> OpenPolicy],
   [readable |-> TRUE, cfg |-> PrivatePolicy],
   [readable |-> FALSE, cfg |-> <<>>]}

ConnDisks == [{file1, file2} -> FileStates]

ConnRequests ==
  [method_number : {"M_GET", "M_PUT"},
   uri : {svn_base \o slash \o repos_r \o path_a},
   destination : {NULL}, headers_in : {{"Authorization"}},
   proxyreq : {PROXYREQ_NONE}, user : {NULL},
   some_auth_required : BOOLEAN, satisfies : {SATISFY_ALL},
   conf : [authoritative : BOOLEAN, anonymous : {TRUE},
           base_path : {svn_base}, access_file : {file1, file2}],
   err_headers_out : {{}}]

InitConn ==
  /\ disk \in ConnDisks
  /\ conn_pool = <<>>
  /\ r \in ConnRequests
  /\ pc = "access_checker"
  /\ status = DECLINED
  /\ hooklog = NoLog
  /\ query = NoQuery
  /\ result = NoResult
  /\ NoMerge

\* the next request of the connection: r->connection->pool lives on
NextRequest ==
  /\ pc \in {"handler", "die", "other_modules"}
  /\ r' \in ConnRequests
  /\ pc' = "access_checker"
  /\ status' = DECLINED
  /\ hooklog' = NoLog
  /\ UNCHANGED <<disk, conn_pool, query, result, merge_vars>>

\* an access file is rewritten, removed or restored
FileChanges ==
  /\ \E f \in {file1, file2}, st \in FileStates :
       /\ st # disk[f]
       /\ disk' = [disk EXCEPT ![f] = st]
  /\ UNCHANGED <<conn_pool, r, pc, status, hooklog, query, result, merge_vars>>

NextConn ==
  AccessChecker \/ CheckUserId \/ AuthChecker \/ NextRequest \/ FileChanges

SpecConn == InitConn /\ [][NextConn]_vars

\* the cache key of the access file of the request
KeyOf(req) == mod_authz_svn_key \o req.conf.access_file

\* this step is a hook that calls req_check_access
HookEvaluates ==
  /\ pc \in {"access_checker", "auth_checker"} /\ pc' # pc
  /\ hooklog'.branch \in {"granted", "denied", "error"}

\* C18: once an access file is in the cache of the connection, no step
\* removes or replaces the entry, also not a step that changes the file on
\* disk, and every hook of a later request configured with that file, in
\* either phase, reads nothing and gets from each check_access call the
\* answer of the cached instance.
C18_Memoized ==
  [][\A k \in DOMAIN conn_pool :
       /\ k \in DOMAIN conn_pool' /\ conn_pool'[k] = conn_pool[k]
       /\ (HookEvaluates /\ k = KeyOf(r)) =>
            /\ hooklog'.loads = 0
            /\ hooklog'.checks # <<>>
            /\ \A c \in Range(hooklog'.checks) :
                 c.access = check_access(conn_pool[k], c.repos_name,
                                         c.repos_path, c.user,
                                         c.required_access).access]_vars

\* a hook decided on the cached instance what the file now on disk would
\* decide otherwise
C18_Witness ==
  /\ HookRan /\ hooklog.loads = 0 /\ hooklog.checks # <<>>
  /\ KeyOf(r) \in DOMAIN conn_pool
  /\ disk[r.conf.access_file].readable
  /\ disk[r.conf.access_file].cfg # conn_pool[KeyOf(r)]
  /\ hooklog.checks[1].access #
       check_access(disk[r.conf.access_file].cfg,
                    hooklog.checks[1].repos_name,
                    hooklog.checks[1].repos_path, hooklog.checks[1].user,
                    hooklog.checks[1].required_access).access

----------------------------------------------------------------------------
(* Two requests of one connection in req_check_access at the same time:   *)
(* "Retrieve/cache authorization file" statement by statement. In this    *)
(* specification r, pc, status and hooklog hold one value per request;    *)
(* hooklog holds the locals access_conf and the number of reads.          *)

Procs == {1, 2}

RaceRequests ==
  [method_number : {"M_GET", "M_PUT"},
   uri : {svn_base \o slash \o repos_r \o path_a},
   destination : {NULL}, headers_in : {{"Authorization"}},
   proxyreq : {PROXYREQ_NONE}, user : {alice, carol},
   some_auth_required : {TRUE}, satisfies : {SATISFY_ALL},
   conf : [authoritative : {TRUE}, anonymous : {TRUE},
           base_path : {svn_base}, access_file : {file1, file2}],
   err_headers_out : {{}}]

\* the locals of req_check_access when it comes to the cache
RaceLocals(req) ==
  [authz_svn_type |-> authz_svn_type_of(req.method_number),
   repos_name |-> dav_svn_split_uri(req.uri, req.conf.base_path).repos_name,
   repos_path |->
     svn_path_join(slash,
       dav_svn_split_uri(req.uri, req.conf.base_path).repos_path),
   repos_path_ref |->
     apr_pstrcat(dav_svn_split_uri(req.uri, req.conf.base_path).repos_name,
                 colon,
                 svn_path_join(slash,
                   dav_svn_split_uri(req.uri,
                                     req.conf.base_path).repos_path)),
   dest_repos_name |-> NULL, dest_repos_path |-> NULL,
   dest_repos_path_ref |-> NULL]

InitRace ==
  /\ disk \in ConnDisks
  /\ conn_pool = <<>>
  /\ r \in [Procs -> RaceRequests]
  /\ pc = [p \in Procs |-> "get"]
  /\ status = [p \in Procs |-> DECLINED]
  /\ hooklog = [p \in Procs |-> [access_conf |-> NULL, loads |-> 0]]
  /\ query = NoQuery
  /\ result = NoResult
  /\ NoMerge

\* apr_pool_userdata_get(&user_data, cache_key, r->connection->pool);
\* access_conf = user_data; if (access_conf == NULL)
UserdataGet(p) ==
  /\ pc[p] = "get"
  /\ IF KeyOf(r[p]) \in DOMAIN conn_pool
     THEN /\ hooklog' = [hooklog EXCEPT ![p].access_conf =
                                           conn_pool[KeyOf(r[p])]]
          /\ pc' = [pc EXCEPT ![p] = "check"]
     ELSE /\ pc' = [pc EXCEPT ![p] = "read"]
          /\ UNCHANGED hooklog
  /\ UNCHANGED <<disk, conn_pool, r, status, query, result, merge_vars>>

\* svn_err = svn_config_read(&access_conf, conf->access_file, ...);
\* if (svn_err) return DECLINED
ConfigRead(p) ==
  /\ pc[p] = "read"
  /\ IF svn_config_read(disk, r[p].conf.access_file).svn_err
     THEN /\ hooklog' = [hooklog EXCEPT ![p].loads = @ + 1]
          /\ status' = [status EXCEPT ![p] = DECLINED]
          /\ pc' = [pc EXCEPT ![p] = "done"]
     ELSE /\ hooklog' =
               [hooklog EXCEPT
                  ![p].loads = @ + 1,
                  ![p].access_conf =
                     svn_config_read(disk, r[p].conf.access_file).cfg]
          /\ pc' = [pc EXCEPT ![p] = "set"]
          /\ UNCHANGED status
  /\ UNCHANGED <<disk, conn_pool, r, query, result, merge_vars>>

\* apr_pool_userdata_set(access_conf, cache_key, NULL, r->connection->pool)
UserdataSet(p) ==
  /\ pc[p] = "set"
  /\ conn_pool' = apr_pool_userdata_set(conn_pool, KeyOf(r[p]),
                                        hooklog[p].access_conf)
  /\ pc' = [pc EXCEPT ![p] = "check"]
  /\ UNCHANGED <<disk, r, status, hooklog, query, result, merge_vars>>

\* the rest of req_check_access, on the local access_conf
CheckLoaded(p) ==
  /\ pc[p] = "check"
  /\ status' =
       [status EXCEPT ![p] =
          req_check_loaded(r[p], RaceLocals(r[p]), hooklog[p].access_conf,
            conn_pool, hooklog[p].loads,
            check_access(hooklog[p].access_conf,
                         RaceLocals(r[p]).repos_name,
                         RaceLocals(r[p]).repos_path, r[p].user,
                         RaceLocals(r[p]).authz_svn_type)).ret]
  /\ pc' = [pc EXCEPT ![p] = "done"]
  /\ UNCHANGED <<disk, conn_pool, r, hooklog, query, result, merge_vars>>

NextRace ==
  \E p \in Procs :
    UserdataGet(p) \/ ConfigRead(p) \/ UserdataSet(p) \/ CheckLoaded(p)

SpecRace == InitRace /\ [][NextRace]_vars

\* C17: two requests of one connection that both found the entry of the
\* same access file missing are never both between the lookup and the store
\* (lookup, read and store are an exclusive critical section), so the same
\* access file is never read by both.
C17_AtMostOneLoad ==
  \A p, q \in Procs :
    (p # q /\ KeyOf(r[p]) = KeyOf(r[q])) =>
      /\ ~(pc[p] \in {"read", "set"} /\ pc[q] \in {"read", "set"})
      /\ ~(hooklog[p].loads > 0 /\ hooklog[q].loads > 0
           /\ hooklog[p].access_conf # NULL /\ hooklog[q].access_conf # NULL)

----------------------------------------------------------------------------
(* Properties of the hooks on requests they cannot decide, under Spec *)

\* C19: for a MOVE or COPY without Destination header, whose uri names a
\* repository, a hook that comes to req_check_access evaluates no query and
\* rejects nothing itself: it returns DECLINED, in access_checker and in
\* auth_checker, with AuthzSVNAuthoritative on and off.
C19_NoDestinationDeclines ==
  (Evaluated /\ MoveOrCopy(r) /\ r.destination = NULL
     /\ hooklog.branch # "error") =>
    /\ hooklog.checks = <<>> /\ hooklog.loads = 0
    /\ status = DECLINED

\* the hook tried to read an access file that cannot be read
LoadFailed ==
  /\ HookRan /\ hooklog.loads > 0
  /\ ~disk[r.conf.access_file].readable

\* C20: when svn_config_read fails, the hook evaluates no query, caches
\* nothing and answers as for a policy denial, for every method, MERGE
\* included: DECLINED when AuthzSVNAuthoritative is off, HTTP_FORBIDDEN
\* (access_checker) or HTTP_UNAUTHORIZED with the challenge (auth_checker)
\* when it is on; a hook whose access file cannot be read never returns OK.
C20_LoadFailureDenies ==
  /\ LoadFailed =>
       /\ hooklog.checks = <<>>
       /\ hooklog.branch = "denied"
       /\ KeyOf(r) \notin DOMAIN conn_pool
       /\ status = (IF ~r.conf.authoritative THEN DECLINED
                    ELSE IF hooklog.hook = "access_checker"
                    THEN HTTP_FORBIDDEN ELSE HTTP_UNAUTHORIZED)
       /\ (r.conf.authoritative /\ hooklog.hook = "auth_checker")
            <=> "WWW-Authenticate" \in r.err_headers_out
  /\ (HookRan /\ r.conf.access_file # NULL
        /\ ~disk[r.conf.access_file].readable) => status # OK

\* a MERGE, which a readable access file always lets through, rejected
\* because the access file cannot be read
C20_Witness ==
  /\ LoadFailed /\ r.method_number = "M_MERGE"
  /\ r.conf.authoritative
  /\ status = HTTP_FORBIDDEN

----------------------------------------------------------------------------
(* Properties of what the hooks return, under Spec *)

\* uri lies under base and names a repository
Decomposable(uri, base) ==
  /\ Len(uri) > Len(base) + 1
  /\ SubSeq(uri, 1, Len(base) + 1) = base \o slash

\* uri lies under base
UnderBase(uri, base) ==
  Len(uri) >= Len(base) /\ SubSeq(uri, 1, Len(base)) = base

----------------------------------------------------------------------------
(* Every method: one request of each method on a path of repository r *)

UnknownMethods == {"M_LOCK", "M_UNLOCK", "M_TRACE"}
AllMethods == ReadMethods \cup {"M_COPY"} \cup WriteMethods \cup UnknownMethods

MethodRequests ==
  {q \in [method_number : AllMethods,
          uri : {svn_base \o slash \o repos_r,
                 svn_base \o slash \o repos_r \o path_a},
          destination : {NULL, svn_base \o slash \o repos_r \o path_a_b},
          headers_in : {{}, {"Authorization"}}, proxyreq : {PROXYREQ_NONE},
          user : {NULL}, some_auth_required : BOOLEAN,
          satisfies : {SATISFY_ALL},
          conf : [authoritative : BOOLEAN, anonymous : {TRUE},
                  base_path : {svn_base}, access_file : {file1}],
          err_headers_out : {{}}] :
     q.destination # NULL <=> q.method_number \in {"M_MOVE", "M_COPY"}}

InitMethods ==
  /\ \E cfg \in HookPolicies :
       disk = (file1 :> [readable |-> TRUE, cfg |-> cfg])
              @@ (file2 :> [readable |-> FALSE, cfg |-> <<>>])
  /\ conn_pool = <<>>
  /\ r \in MethodRequests
  /\ pc = "access_checker"
  /\ status = DECLINED
  /\ hooklog = NoLog
  /\ query = NoQuery
  /\ result = NoResult
  /\ NoMerge

SpecMethods == InitMethods /\ [][Next]_vars

\* C22: the first query of a hook asks, on the path of the uri, for Read
\* when the method is OPTIONS, GET, PROPFIND or REPORT, for ReadTree when it
\* is COPY, and for Write when it is MOVE, MKCOL, DELETE, PUT, PROPPATCH,
\* CHECKOUT, MERGE or MKACTIVITY and when it is any other method (LOCK,
\* UNLOCK, TRACE); a method other than the four read methods and COPY passes
\* a hook only when the access file grants its principal "w" at the deciding
\* level of the path (MERGE, which is queried without path, apart).
C22_MethodPermission ==
  (HookRan /\ hooklog.checks # <<>>) =>
    LET c == hooklog.checks[1]
        m == r.method_number
    IN /\ m \in {"M_OPTIONS", "M_GET", "M_PROPFIND", "M_REPORT"}
            => c.required_access = AUTHZ_SVN_READ
       /\ m = "M_COPY" => c.required_access = AUTHZ_SVN_READ_TREE
       /\ m \in {"M_MOVE", "M_MKCOL", "M_DELETE", "M_PUT", "M_PROPPATCH",
                  "M_CHECKOUT", "M_MERGE", "M_MKACTIVITY"}
            => c.required_access = AUTHZ_SVN_WRITE
       /\ m \in UnknownMethods
            => /\ c.required_access = AUTHZ_SVN_WRITE
               /\ c.required_access # AUTHZ_SVN_READ
       /\ (/\ m \notin {"M_OPTIONS", "M_GET", "M_PROPFIND", "M_REPORT",
                         "M_COPY"}
           /\ c.repos_path # NULL /\ c.access # 0) =>
            LET levels == DecisiveLevels(disk[file1].cfg, c.repos_name,
                                         c.repos_path, c.user)
            IN /\ levels # {}
               /\ Grants(disk[file1].cfg,
                         DecidingSection(disk[file1].cfg, c.repos_name,
                                         Deepest(levels), c.user),
                         c.user, AUTHZ_SVN_WRITE)

\* a LOCK of the anonymous principal where only Read is granted: queried
\* with Write and refused
C22_Witness ==
  /\ AnonymousRan /\ r.method_number = "M_LOCK"
  /\ disk[file1].cfg = ReadOnlyPolicy
  /\ hooklog.checks # <<>>
  /\ hooklog.checks[1].required_access = AUTHZ_SVN_WRITE
  /\ hooklog.checks[1].access = 0
  /\ status = HTTP_FORBIDDEN

----------------------------------------------------------------------------
(* Further properties of the resolver, under SpecResolve *)

\* the sections qualified with repository s that an access file may hold
ForeignNames == {Qualified(repos_s, p) : p \in {slash, path_a, path_a_b}}

\* what the sections of ForeignNames are replaced by: nothing, or one line
\* that denies or grants everything to everyone or to alice
ForeignLines ==
  {<<>>} \cup {<<Rule(n, v)>> : n \in {star, alice}, v \in {<<>>, <<"r", "w">>}}

\* C23: the answer to a query on repository r is the answer the same query
\* gets from the access file with its sections qualified with repository s
\* removed, and from the access file with sections s:/, s:/a and s:/a/b
\* added or replaced by any one rule line; the walk and the subtree check
\* are never given a section qualified with s.
C23_RepositoryIsolation ==
  (pc = "answered" /\ query.repos_name = repos_r) =>
    /\ \A lines \in ForeignLines :
         check_access(WithSections(Cfg, ForeignNames, lines),
                      query.repos_name, query.repos_path, query.user,
                      query.required_access).access = result.access
    /\ \A n \in Range(result.enumerated) \cup Range(result.subtree) :
         n \notin ForeignNames

\* ReadTree on /a of repository r allowed while [s:/a] denies everyone
C23_Witness ==
  /\ Answered /\ query.repos_name = repos_r /\ query.repos_path = path_a
  /\ query.required_access = AUTHZ_SVN_READ_TREE
  /\ HasSection(Cfg, Qualified(repos_s, path_a))
  /\ ~Grants(Cfg, Qualified(repos_s, path_a), query.user, AUTHZ_SVN_READ)
  /\ Mentions(Cfg, Qualified(repos_s, path_a), query.user)
  /\ result.subtree_run /\ Allowed

\* the orders in which the lines can stand
Reorderings(lines) ==
  {[i \in 1..Len(lines) |-> lines[p[i]]] : p \in Permutations(1..Len(lines))}

\* cfg with the lines of every section but groups in reverse order
Reversed(cfg) ==
  [i \in 1..Len(cfg) |->
     IF cfg[i].name = groups THEN cfg[i]
     ELSE Section(cfg[i].name,
                  [j \in 1..Len(cfg[i].lines) |->
                     cfg[i].lines[Len(cfg[i].lines) + 1 - j]])]

\* a line a section may hold besides its own
ExtraLines ==
  {<<>>, <<Rule(star, <<>>)>>, <<Rule(at_devs, <<"r", "w">>)>>}

\* C24: the lines of a section fold into the same allow and deny bits in
\* every order: for every section of the access file, alone or with one
\* more line, every reordering of its lines leaves svn_config_enumerate with
\* the same baton for the principal of the query, hence the same
\* decisiveness and the same *access for Read and for Write; and
\* check_access gives the same answer, after the same levels, on the file
\* with the lines of every section reversed.
C24_OrderIndependent ==
  pc = "answered" =>
    /\ \A i \in 1..Len(Cfg) : \A e \in ExtraLines :
         Cfg[i].name # groups =>
           LET baton == [config |-> Cfg, user |-> query.user,
                         allow |-> 0, deny |-> 0]
               b0 == enumerate_from(Cfg[i].lines \o e, 1, baton)
           IN \A lines \in Reorderings(Cfg[i].lines \o e) :
                LET b == enumerate_from(lines, 1, baton)
                IN /\ b.allow = b0.allow /\ b.deny = b0.deny
                   /\ \A a \in {AUTHZ_SVN_READ, AUTHZ_SVN_WRITE} :
                        AccessOf(b, a) = AccessOf(b0, a)
    /\ LET c == check_access(Reversed(Cfg), query.repos_name,
                             query.repos_path, query.user,
                             query.required_access)
       IN c.access = result.access /\ c.levels = result.levels

\* a section of two lines that both apply to alice, one granting Write and
\* one not, decides a Write query of alice, and allows
C24_Witness ==
  /\ WalkQuery /\ query.user = alice /\ Levels # {}
  /\ query.required_access = AUTHZ_SVN_WRITE
  /\ LET lines == SectionLines(Cfg, result.enumerated[Len(result.enumerated)])
     IN /\ Len(lines) = 2
        /\ \A l \in Range(lines) : Matches(Cfg, l, alice)
        /\ "w" \notin Range(lines[2].value)
        /\ "w" \in Range(lines[1].value)
  /\ Allowed

\* C25: a query that check_access allows for the anonymous principal (no
\* user) it allows, on the same access file, repository, path and
\* permission, for every authenticated principal.
C25_AnonymousImpliesAuthenticated ==
  (pc = "answered" /\ query.user = NULL /\ Allowed) =>
    \A u \in {alice, carol, bob} :
      check_access(Cfg, query.repos_name, query.repos_path, u,
                   query.required_access).access # 0

\* C26: the subtree check never denies because of the section named exactly
\* by the base path, generic or qualified, or because of a section of an
\* ancestor of the base path: when a ReadTree query whose walk allowed Read
\* is denied, the section that denied it (the last one the subtree check
\* evaluated) is none of these.
C26_BaseNotChecked ==
  (Answered /\ result.subtree_run /\ ~Allowed) =>
    result.subtree[Len(result.subtree)] \notin
      UNION {{a, Qualified(query.repos_name, a)} :
               a \in Ancestors(query.repos_path)}

\* the number of segments of an absolute path
Depth(path) ==
  IF path = slash THEN 0
  ELSE Cardinality({i \in 1..Len(path) : path[i] = "/"})

\* how many times name stands in the sequence
Occurrences(seq, name) == Cardinality({i \in 1..Len(seq) : seq[i] = name})

\* C27: check_access returns 0 or 1 on every access file and query. Its
\* loop hands the path of the query to parse_authz_lines first and then, as
\* long as no level is decisive, a strictly shorter proper ancestor of the
\* level before, down to the root, which it evaluates a second time before
\* the default deny: at most Depth + 2 evaluations, the last being the only
\* one that can be decisive. The subtree check evaluates sections of the
\* access file only, each at most twice, and at most as many as twice the
\* number of sections.
C27_Terminates ==
  pc = "answered" =>
    /\ result.access \in {0, 1}
    /\ query.repos_path = NULL => result.levels = <<>>
    /\ query.repos_path # NULL =>
         /\ Len(result.levels) \in 1..(Depth(query.repos_path) + 2)
         /\ result.levels[1] = query.repos_path
         /\ \A i \in 1..(Len(result.levels) - 1) :
              /\ result.levels[i] \notin Levels
              /\ IF result.levels[i] = slash
                 THEN result.levels[i + 1] = slash /\ i + 1 = Len(result.levels)
                 ELSE /\ Len(result.levels[i + 1]) < Len(result.levels[i])
                      /\ result.levels[i + 1] \in Ancestors(result.levels[i])
         /\ Occurrences(result.levels, slash) <= 2
         /\ Levels = {} =>
              /\ result.levels[Len(result.levels)] = slash
              /\ result.access = 0
         /\ Levels # {} => result.levels[Len(result.levels)] = Deepest(Levels)
    /\ result.subtree_run =>
         /\ Len(result.subtree) <= 2 * Len(Cfg)
         /\ \A name \in Range(result.subtree) :
              /\ HasSection(Cfg, name)
              /\ Occurrences(result.subtree, name) <= 2

\* a query on /a/b of a file with rule lines none of which applies: four
\* evaluations, the root twice, and the default deny
C27_Witness ==
  /\ Answered /\ query.repos_path = path_a_b
  /\ result.levels = <<path_a_b, path_a, slash, slash>>
  /\ Len(Cfg) = 3
  /\ ~Allowed

\* the baton parse_authz_lines and check_access_subtree start from
EmptyBaton(cfg, user) == [config |-> cfg, user |-> user, allow |-> 0, deny |-> 0]

\* C28: whether a section or a level is decisive does not depend on the
\* permission asked for. For every section of the access file and the
\* principal of the query, the bits svn_config_enumerate leaves satisfy
\* allow | deny = 0 when no line of the section applies to the principal and
\* allow | deny = READ | WRITE when some line does; at every ancestor level
\* of the path parse_authz_lines returns the same for Read and for Write,
\* TRUE iff a line of the qualified or of the generic section applies; and
\* when the qualified section is not decisive the baton it hands on to the
\* generic section has allow = deny = 0.
C28_DecisivenessAnyPermission ==
  Answered =>
    /\ \A i \in 1..Len(Cfg) :
         Cfg[i].name # groups =>
           LET b == svn_config_enumerate(Cfg, Cfg[i].name,
                                         EmptyBaton(Cfg, query.user))
           IN BitOr(b.allow, b.deny) =
                (IF Mentions(Cfg, Cfg[i].name, query.user)
                 THEN BitOr(AUTHZ_SVN_READ, AUTHZ_SVN_WRITE)
                 ELSE AUTHZ_SVN_NONE)
    /\ \A a \in Ancestors(query.repos_path) :
         LET rd == parse_authz_lines(Cfg, query.repos_name, a, query.user,
                                     AUTHZ_SVN_READ)
             wr == parse_authz_lines(Cfg, query.repos_name, a, query.user,
                                     AUTHZ_SVN_WRITE)
             b1 == svn_config_enumerate(Cfg, Qualified(query.repos_name, a),
                                        EmptyBaton(Cfg, query.user))
         IN /\ rd.ret = wr.ret
            /\ rd.ret <=> a \in Levels
            /\ rd.enumerated = wr.enumerated
            /\ Len(rd.enumerated) = 2 => (b1.allow = 0 /\ b1.deny = 0)
            /\ Len(rd.enumerated) = 2
                 <=> ~Mentions(Cfg, Qualified(query.repos_name, a), query.user)

\* carol asks for Write on /a: [r:/a] has a line, for alice only, and is not
\* decisive; [/a], whose line grants Read alone, decides and denies
C28_Witness ==
  /\ WalkQuery /\ query.user = carol /\ query.repos_path = path_a
  /\ query.required_access = AUTHZ_SVN_WRITE
  /\ HasSection(Cfg, Qualified(repos_r, path_a))
  /\ ~Mentions(Cfg, Qualified(repos_r, path_a), carol)
  /\ Grants(Cfg, path_a, carol, AUTHZ_SVN_READ)
  /\ result.enumerated = <<Qualified(repos_r, path_a), path_a>>
  /\ ~Allowed

\* the lines of the section that are `*` lines
StarLines(cfg, section) ==
  {l \in Range(SectionLines(cfg, section)) : l.name = star}

\* the ancestors of the path with a `*` line in the qualified or generic section
StarLevels(cfg, repos_name, path) ==
  {a \in Ancestors(path) :
     StarLines(cfg, Qualified(repos_name, a)) \cup StarLines(cfg, a) # {}}

\* C29: for the anonymous principal (no user) only `*` lines count. A line
\* that names a user or a group leaves the baton as it was, whatever the
\* group holds; a section is decisive iff it has a `*` line; the walk stops
\* at the deepest ancestor that has a `*` line in its qualified or generic
\* section, and the query is allowed iff there is such a level and a `*`
\* line of the section deciding there (the qualified one if it has a `*`
\* line) has the required letter; the answer is the one of the access file
\* with every line other than the `*` lines removed.
C29_AnonymousStarOnly ==
  (WalkQuery /\ query.user = NULL) =>
    /\ \A i \in 1..Len(Cfg) : \A l \in Range(Cfg[i].lines) :
         (Cfg[i].name # groups /\ l.name # star) =>
           \A b \in [config : {Cfg}, user : {NULL}, allow : 0..3, deny : 0..3] :
             parse_authz_line(l.name, l.value, b) = b
    /\ \A i \in 1..Len(Cfg) :
         Cfg[i].name # groups =>
           LET b == svn_config_enumerate(Cfg, Cfg[i].name, EmptyBaton(Cfg, NULL))
           IN (b.allow # 0 \/ b.deny # 0) <=> StarLines(Cfg, Cfg[i].name) # {}
    /\ LET stars == StarLevels(Cfg, query.repos_name, query.repos_path)
       IN /\ stars = Levels
          /\ Allowed <=>
               /\ stars # {}
               /\ \E l \in StarLines(Cfg,
                             IF StarLines(Cfg, Qualified(query.repos_name,
                                                         Deepest(stars))) # {}
                             THEN Qualified(query.repos_name, Deepest(stars))
                             ELSE Deepest(stars)) :
                    Letter(query.required_access) \in Range(l.value)
    /\ LET only_stars ==
             [i \in 1..Len(Cfg) |->
                IF Cfg[i].name = groups THEN Cfg[i]
                ELSE Section(Cfg[i].name,
                             SelectSeq(Cfg[i].lines, LAMBDA l : l.name = star))]
       IN check_access(only_stars, query.repos_name, query.repos_path, NULL,
                       query.required_access).access = result.access

\* an anonymous Read of /a: [/a] has only a line for a group that grants
\* Read and Write, the root has `* =`, and the query is denied at the root
C29_Witness ==
  /\ WalkQuery /\ query.user = NULL /\ query.repos_path = path_a
  /\ query.required_access = AUTHZ_SVN_READ
  /\ \E l \in Range(SectionLines(Cfg, path_a)) :
       l.name = at_devs /\ "r" \in Range(l.value)
  /\ StarLines(Cfg, path_a) = {}
  /\ StarLines(Cfg, slash) # {}
  /\ result.levels = <<path_a, slash>>
  /\ ~Allowed

\* the names of the sections whose name starts with the qualified or with the
\* generic base path, character by character
Selected(cfg, repos_name, path) ==
  {cfg[i].name : i \in {j \in 1..Len(cfg) :
     \E prefix \in {path, Qualified(repos_name, path)} :
       /\ Len(cfg[j].name) >= Len(prefix)
       /\ SubSeq(cfg[j].name, 1, Len(prefix)) = prefix}}

\* the access files that hold the sections of cfg in another order
Shuffled(cfg) ==
  {[i \in 1..Len(cfg) |-> cfg[p[i]]] : p \in Permutations(1..Len(cfg))}

\* C30: the answer of the subtree check does not depend on the order in
\* which the sections are enumerated. When it is run it denies iff some
\* section whose name starts with the qualified or the generic base path
\* denies Read to the principal on its own, whichever of the two prefixes
\* selected it and wherever it stands in the file; and check_access answers
\* the same on every access file that holds the same sections in another
\* order, although the sections it evaluates before it stops differ.
C30_SubtreeOrderIndependent ==
  (Answered /\ result.subtree_run) =>
    /\ ~Allowed <=>
         \E name \in Selected(Cfg, query.repos_name, query.repos_path) :
           Denies(Cfg, name, query.user, AUTHZ_SVN_READ)
    /\ Range(result.subtree)
         \subseteq Selected(Cfg, query.repos_name, query.repos_path)
    /\ Allowed =>
         Range(result.subtree)
           = Selected(Cfg, query.repos_name, query.repos_path)
    /\ \A cfg \in Shuffled(Cfg) :
         LET c == check_access(cfg, query.repos_name, query.repos_path,
                               query.user, query.required_access)
         IN c.subtree_run /\ c.access = result.access

\* two sections are selected, the first in the file denies and the second
\* allows: the subtree check stops after the first and denies
C30_Witness ==
  /\ Answered /\ result.subtree_run /\ ~Allowed
  /\ Cardinality(Selected(Cfg, query.repos_name, query.repos_path)) = 2
  /\ Len(result.subtree) = 1
  /\ \E name \in Selected(Cfg, query.repos_name, query.repos_path) :
       Grants(Cfg, name, query.user, AUTHZ_SVN_READ)

----------------------------------------------------------------------------
(* The cache of the connection when a load fails, under SpecConn *)

\* C31: a hook that finds no entry under the key of its access file reads
\* the file. When the read fails the cache of the connection is left as it
\* was, without an entry for the key, and no query is evaluated, so that the
\* hook of the next request reads again; when it succeeds, exactly one entry
\* is added, under the key made of the location of the request's own access
\* file, holding what that file holds at that moment. No other step adds an
\* entry, and every query of a hook is answered by the instance stored under
\* the key of the request's own access file.
C31_FailedLoadNotCached ==
  [][IF HookEvaluates
     THEN /\ KeyOf(r) \notin DOMAIN conn_pool => hooklog'.loads = 1
          /\ (KeyOf(r) \notin DOMAIN conn_pool
              /\ ~disk[r.conf.access_file].readable) =>
               /\ conn_pool' = conn_pool
               /\ hooklog'.checks = <<>>
          /\ (KeyOf(r) \notin DOMAIN conn_pool
              /\ disk[r.conf.access_file].readable) =>
               /\ DOMAIN conn_pool' = DOMAIN conn_pool \cup {KeyOf(r)}
               /\ conn_pool'[KeyOf(r)] = disk[r.conf.access_file].cfg
               /\ \A k \in DOMAIN conn_pool : conn_pool'[k] = conn_pool[k]
          /\ hooklog'.checks # <<>> =>
               /\ KeyOf(r) \in DOMAIN conn_pool'
               /\ \A c \in Range(hooklog'.checks) :
                    c.access = check_access(conn_pool'[KeyOf(r)],
                                            c.repos_name, c.repos_path,
                                            c.user, c.required_access).access
     ELSE conn_pool' = conn_pool]_vars

\* the read of one access file failed on a connection that has the other
\* file cached: the cache holds that entry alone
C31_Witness ==
  /\ LoadFailed
  /\ DOMAIN conn_pool = {mod_authz_svn_key \o f : f \in {file1, file2} \ {r.conf.access_file}}
  /\ hooklog.checks = <<>>

----------------------------------------------------------------------------
(* libsvn_ra_dav/merge.c: the handling of the response to a MERGE request *)

MaxResponses == 2

SVN_NO_ERROR == NULL
SVN_INVALID_REVNUM == -1

Elements ==
  {"ELEM_updated_set", "ELEM_merged_set", "ELEM_ignored_set", "ELEM_href",
   "ELEM_merge_response", "ELEM_checked_in", "ELEM_response", "ELEM_propstat",
   "ELEM_status", "ELEM_responsedescription", "ELEM_prop",
   "ELEM_resourcetype", "ELEM_collection", "ELEM_baseline",
   "ELEM_version_name", "ELEM_creationdate", "ELEM_creator_displayname"}

\* an svn_error_t made while response number n was handled
svn_error_create(message, n) == <<"APR_EGENERAL", message, n>>

validate_element(parent, child) ==
  IF child \in {"ELEM_collection", "ELEM_baseline"} /\ parent # "ELEM_resourcetype"
  THEN "SVN_RA_DAV__XML_INVALID"
  ELSE IF parent = "ELEM_root"
  THEN IF child = "ELEM_merge_response" THEN "SVN_RA_DAV__XML_VALID"
       ELSE "SVN_RA_DAV__XML_INVALID"
  ELSE IF \/ parent = "ELEM_merge_response"
             /\ child \in {"ELEM_updated_set", "ELEM_merged_set", "ELEM_ignored_set"}
          \/ parent \in {"ELEM_updated_set", "ELEM_merged_set"}
             /\ child = "ELEM_response"
          \/ parent = "ELEM_ignored_set" /\ child = "ELEM_href"
          \/ parent = "ELEM_response"
             /\ child \in {"ELEM_href", "ELEM_status", "ELEM_propstat"}
          \/ parent = "ELEM_propstat" /\ child \in {"ELEM_prop", "ELEM_status"}
          \/ parent = "ELEM_prop"
             /\ child \in {"ELEM_checked_in", "ELEM_resourcetype",
                           "ELEM_version_name", "ELEM_creationdate",
                           "ELEM_creator_displayname"}
          \/ parent = "ELEM_checked_in" /\ child = "ELEM_href"
          \/ parent = "ELEM_resourcetype"
             /\ child \in {"ELEM_collection", "ELEM_baseline"}
  THEN "SVN_RA_DAV__XML_VALID"
  ELSE "SVN_RA_DAV__XML_DECLINE"

\* the path without its last component; the empty path stays empty
svn_path_remove_component(path) ==
  IF \E i \in 1..Len(path) : path[i] = "/"
  THEN SubSeq(path, 1, (CHOOSE i \in 1..Len(path) :
                          path[i] = "/" /\ \A j \in (i + 1)..Len(path) : path[j] # "/") - 1)
  ELSE <<>>

\* %61 and %62 are a and b
RECURSIVE svn_path_uri_decode(_)
svn_path_uri_decode(path) ==
  IF path = <<>> THEN <<>>
  ELSE IF Len(path) >= 3 /\ path[1] = "%" /\ path[2] = "6" /\ path[3] \in {"1", "2"}
  THEN <<IF path[3] = "1" THEN "a" ELSE "b">>
       \o svn_path_uri_decode(SubSeq(path, 4, Len(path)))
  ELSE <<path[1]>> \o svn_path_uri_decode(Tail(path))

\* the path of the href, without a trailing slash
svn_ra_dav__copy_href(cdata) ==
  IF Len(cdata) > 1 /\ cdata[Len(cdata)] = "/"
  THEN SubSeq(cdata, 1, Len(cdata) - 1) ELSE cdata

\* a status line gives its code, or does not parse
ne_parse_statusline(cdata) ==
  IF cdata = "HTTP/1.1 200 OK" THEN [rc |-> 0, code |-> 200]
  ELSE IF cdata = "HTTP/1.1 404 Not Found" THEN [rc |-> 0, code |-> 404]
  ELSE [rc |-> -1, code |-> 0]

\* atol of a version name of at most one digit
SVN_STR_TO_REV(str) ==
  IF Len(str) = 1 /\ str[1] \in {"1", "7"} THEN (IF str[1] = "1" THEN 1 ELSE 7)
  ELSE 0

\* the value stored under the key, a void *: here its name, or "NULL"
apr_hash_get(ht, key) == IF key \in DOMAIN ht THEN ht[key] ELSE "NULL"

\* the do-while loop of okay_to_bump_path
RECURSIVE bump_parents(_, _)
bump_parents(parent_path, valid_targets) ==
  LET removed == svn_path_remove_component(parent_path)
  IN IF Len(removed) = Len(parent_path) THEN FALSE
     ELSE IF apr_hash_get(valid_targets, removed) = "svn_recursive" THEN TRUE
     ELSE IF removed = <<>> THEN FALSE
     ELSE bump_parents(removed, valid_targets)

\* okay_to_bump_path where a parent of any kind in the hash is enough
okay_to_bump_path_any_parent(path, valid_targets) ==
  \/ path \in DOMAIN valid_targets
  \/ \E i \in 1..Len(path) :
       path[i] = "/" /\ SubSeq(path, 1, i - 1) \in DOMAIN valid_targets
  \/ path # <<>> /\ <<>> \in DOMAIN valid_targets

okay_to_bump_path(path, valid_targets) ==
  IF apr_hash_get(valid_targets, path) # "NULL" THEN TRUE
  ELSE bump_parents(path, valid_targets)

\* what handle_resource leaves: the error it returns, the context and the
\* push_prop calls made so far
ResourceReturn(err, ctx, calls) == [err |-> err, mc |-> ctx, wc |-> calls]

\* cb_err is what the client's push_prop returns
bump_resource(ctx, path, vsn_url, calls, cb_err) ==
  IF ctx.push_prop = NULL THEN ResourceReturn(SVN_NO_ERROR, ctx, calls)
  ELSE IF ~okay_to_bump_path(path, ctx.valid_targets)
  THEN ResourceReturn(SVN_NO_ERROR, ctx, calls)
  ELSE ResourceReturn(cb_err, ctx,
         Append(calls, [path |-> path, name |-> "SVN_RA_DAV__LP_VSN_URL",
                        value |-> vsn_url]))

handle_resource(ctx, calls, cb_err, n) ==
  IF ctx.response_has_error THEN ResourceReturn(SVN_NO_ERROR, ctx, calls)
  ELSE IF ctx.response_parent = "ELEM_merged_set"
  THEN ResourceReturn(svn_error_create("merged", n), ctx, calls)
  ELSE IF ctx.response_parent # "ELEM_updated_set"
  THEN ResourceReturn(svn_error_create("unknown parent", n), ctx, calls)
  ELSE IF ctx.rtype = "RTYPE_BASELINE"
  THEN ResourceReturn(SVN_NO_ERROR, [ctx EXCEPT !.rev = SVN_STR_TO_REV(ctx.vsn_name)], calls)
  ELSE IF Len(ctx.href) < ctx.base_len
  THEN ResourceReturn(svn_error_create("not a child", n), ctx, calls)
  ELSE bump_resource(ctx,
         svn_path_uri_decode(IF ctx.base_len = Len(ctx.href) THEN <<>>
                             ELSE SubSeq(ctx.href, ctx.base_len + 2, Len(ctx.href))),
         ctx.vsn_url, calls, cb_err)

start_element(ctx, elm_id) ==
  IF elm_id = "ELEM_response"
  THEN [ctx EXCEPT !.response_has_error = FALSE, !.rtype = "RTYPE_UNKNOWN",
                   !.href = <<>>, !.vsn_name = <<>>, !.vsn_url = <<>>,
                   !.href_parent = elm_id]
  ELSE IF elm_id \in {"ELEM_ignored_set", "ELEM_checked_in"}
  THEN [ctx EXCEPT !.href_parent = elm_id]
  ELSE IF elm_id \in {"ELEM_updated_set", "ELEM_merged_set"}
  THEN [ctx EXCEPT !.response_parent = elm_id]
  ELSE IF elm_id = "ELEM_propstat" THEN [ctx EXCEPT !.status = 0]
  ELSE IF elm_id = "ELEM_resourcetype" THEN [ctx EXCEPT !.rtype = "RTYPE_REGULAR"]
  ELSE IF elm_id = "ELEM_collection" THEN [ctx EXCEPT !.rtype = "RTYPE_COLLECTION"]
  ELSE IF elm_id = "ELEM_baseline" THEN [ctx EXCEPT !.rtype = "RTYPE_BASELINE"]
  ELSE ctx

\* case ELEM_status where the error of the latest bad status line is kept
end_status_last_error(ctx, hs, n) ==
  IF hs.rc # 0 \/ hs.code # 200
  THEN [ctx EXCEPT !.status = IF hs.rc # 0 THEN @ ELSE hs.code,
                   !.response_has_error = TRUE,
                   !.err = svn_error_create("error status", n)]
  ELSE [ctx EXCEPT !.status = hs.code]

\* case ELEM_status of end_element, hs being the parsed status line
end_status(ctx, hs, n) ==
  LET c1 == IF hs.rc # 0 THEN [ctx EXCEPT !.response_has_error = TRUE]
            ELSE IF hs.code # 200
            THEN [ctx EXCEPT !.status = hs.code, !.response_has_error = TRUE]
            ELSE [ctx EXCEPT !.status = hs.code]
  IN IF c1.response_has_error /\ c1.err = NULL
     THEN [c1 EXCEPT !.err = svn_error_create("error status", n)]
     ELSE c1

\* case ELEM_response of end_element, h being what handle_resource left
end_response(h) ==
  [mc |-> IF h.err # NULL /\ h.mc.err = NULL THEN [h.mc EXCEPT !.err = h.err]
          ELSE h.mc,
   wc |-> h.wc]

end_element(ctx, elm_id, cdata, calls, cb_err, n) ==
  IF elm_id = "ELEM_href"
  THEN [mc |-> IF ctx.href_parent = "ELEM_response"
               THEN [ctx EXCEPT !.href = svn_ra_dav__copy_href(cdata)]
               ELSE IF ctx.href_parent = "ELEM_checked_in"
               THEN [ctx EXCEPT !.vsn_url = svn_ra_dav__copy_href(cdata)]
               ELSE ctx,
        wc |-> calls]
  ELSE IF elm_id = "ELEM_status"
  THEN [mc |-> end_status(ctx, ne_parse_statusline(cdata), n), wc |-> calls]
  ELSE IF elm_id = "ELEM_response"
  THEN end_response(handle_resource(ctx, calls, cb_err, n))
  ELSE IF elm_id = "ELEM_checked_in"
  THEN [mc |-> [ctx EXCEPT !.href_parent = "ELEM_response"], wc |-> calls]
  ELSE IF elm_id = "ELEM_version_name"
  THEN [mc |-> [ctx EXCEPT !.vsn_name = cdata], wc |-> calls]
  ELSE IF elm_id = "ELEM_creationdate"
  THEN [mc |-> [ctx EXCEPT !.committed_date = cdata], wc |-> calls]
  ELSE IF elm_id = "ELEM_creator_displayname"
  THEN [mc |-> [ctx EXCEPT !.last_author = cdata], wc |-> calls]
  ELSE [mc |-> ctx, wc |-> calls]

\* the tail of svn_ra_dav__merge_activity, after the request returned
\* without an error: o holds the caller's output arguments, and .written
\* says whether the call has assigned them
merge_activity_return(ctx, o) ==
  IF ctx.err # NULL THEN [o EXCEPT !.pc = "returned", !.ret = ctx.err]
  ELSE [pc |-> "returned", ret |-> NULL, written |-> TRUE, new_rev |-> ctx.rev,
        committed_date |-> IF Len(ctx.committed_date) # 0
                           THEN ctx.committed_date ELSE NULL,
        committed_author |-> IF Len(ctx.last_author) # 0
                             THEN ctx.last_author ELSE NULL]

\* the arguments of the calls of the model
base_href == <<"/", "r">>

ValidTargets ==
  {(<<"a">> :> "svn_nonrecursive"), (<<"a">> :> "svn_recursive")}

\* the character data the server may send in an element whose parent is
\* parent
Cdata(elm_id, parent) ==
  IF elm_id = "ELEM_href"
  THEN IF parent = "ELEM_checked_in" THEN {<<"/", "v">>}
       ELSE {base_href \o <<"/", "a", "/">>,
             base_href \o <<"/", "%", "6", "1", "/", "b">>}
  ELSE IF elm_id = "ELEM_status"
  THEN {"HTTP/1.1 200 OK", "HTTP/1.1 404 Not Found", "garbage"}
  ELSE IF elm_id = "ELEM_version_name" THEN {<<"7">>}
  ELSE IF elm_id = "ELEM_creationdate" THEN {<<"d">>}
  ELSE IF elm_id = "ELEM_creator_displayname" THEN {<<"u">>}
  ELSE {<<>>}

\* svn_ra_dav__merge_activity up to the MERGE request: the context is set up
\* and the caller's output arguments are untouched
InitMerge ==
  /\ \E targets \in ValidTargets, push \in {NULL, <<"push_wc_prop">>} :
       /\ push = NULL => targets = (<<"a">> :> "svn_recursive")
       /\ mc = [err |-> NULL, base_href |-> base_href,
                base_len |-> strlen(base_href),
                rev |-> SVN_INVALID_REVNUM, response_has_error |-> FALSE,
                response_parent |-> 0, href_parent |-> 0, href |-> <<>>,
                status |-> 0, rtype |-> "RTYPE_UNKNOWN", vsn_name |-> <<>>,
                vsn_url |-> <<>>, committed_date |-> <<>>, last_author |-> <<>>,
                valid_targets |-> targets, push_prop |-> push]
  /\ xml = [stack |-> <<"ELEM_root">>, responses |-> 0, bad_status |-> FALSE,
            closed |-> FALSE]
  /\ wc = <<>>
  /\ out = [pc |-> "request", ret |-> NULL, written |-> FALSE,
            new_rev |-> SVN_INVALID_REVNUM, committed_date |-> NULL,
            committed_author |-> NULL]
  /\ disk = <<>> /\ conn_pool = <<>> /\ r = NoRequest /\ pc = "merge"
  /\ status = DECLINED /\ hooklog = NoLog /\ query = NoQuery
  /\ result = NoResult

authz_vars == <<disk, conn_pool, r, pc, status, hooklog, query, result>>

Top(stack) == stack[Len(stack)]

\* the parser opens an element that validate_element accepts
StartElement ==
  /\ out.pc = "request" /\ ~xml.closed
  /\ \E child \in Elements :
       /\ validate_element(Top(xml.stack), child) = "SVN_RA_DAV__XML_VALID"
       /\ child = "ELEM_response" => xml.responses < MaxResponses
       /\ mc' = start_element(mc, child)
       /\ xml' = [xml EXCEPT !.stack = Append(@, child),
                             !.responses = IF child = "ELEM_response"
                                           THEN @ + 1 ELSE @,
                             !.bad_status = IF child = "ELEM_response"
                                            THEN FALSE ELSE @]
  /\ UNCHANGED <<wc, out, authz_vars>>

\* the parser closes the open element and hands over its character data
EndElement ==
  /\ out.pc = "request" /\ Len(xml.stack) > 1
  /\ \E cdata \in Cdata(Top(xml.stack), xml.stack[Len(xml.stack) - 1]),
        cb_err \in IF Top(xml.stack) = "ELEM_response"
                   THEN {SVN_NO_ERROR, svn_error_create("push_prop", xml.responses)}
                   ELSE {SVN_NO_ERROR} :
       LET e == end_element(mc, Top(xml.stack), cdata, wc, cb_err, xml.responses)
       IN /\ mc' = e.mc
          /\ wc' = e.wc
          /\ xml' = [xml EXCEPT
                       !.stack = SubSeq(@, 1, Len(@) - 1),
                       !.closed = Len(xml.stack) = 2,
                       !.bad_status =
                         @ \/ /\ Top(xml.stack) = "ELEM_status"
                              /\ cdata # "HTTP/1.1 200 OK"]
  /\ UNCHANGED <<out, authz_vars>>

\* SVN_ERR(svn_ra_dav__parsed_request_compat(...)): the request fails, on
\* the connection or on XML the parser rejects, and its error is returned;
\* the context, a local variable of svn_ra_dav__merge_activity, is gone
RequestFails ==
  /\ out.pc = "request"
  /\ out' = [out EXCEPT !.pc = "returned",
                        !.ret = <<"SVN_ERR_RA_DAV_REQUEST_FAILED", "request",
                                  xml.responses>>]
  /\ mc' = <<>>
  /\ UNCHANGED <<xml, wc, authz_vars>>

\* the request returns without an error after the whole response was parsed
RequestReturns ==
  /\ out.pc = "request" /\ xml.closed
  /\ out' = merge_activity_return(mc, out)
  /\ mc' = <<>>
  /\ UNCHANGED <<xml, wc, authz_vars>>

NextMerge == StartElement \/ EndElement \/ RequestFails \/ RequestReturns

SpecMerge == InitMerge /\ [][NextMerge]_vars

----------------------------------------------------------------------------
(* The first error of a MERGE response, under SpecMerge *)

RequestFailed(o) == o.ret # NULL /\ o.ret[1] = "SVN_ERR_RA_DAV_REQUEST_FAILED"

\* C32: a status line that is not 200 or does not parse sets the context
\* error when none is set; once the context error is set no later element
\* event changes it; svn_ra_dav__merge_activity never writes the new
\* revision, committed date or author outputs after the context error was
\* set, and when the request itself returns no error it returns the context
\* error.
C32_FirstErrorKept ==
  [][IF out.pc = "request" /\ out'.pc = "request"
     THEN /\ (mc.err = NULL /\ ~xml.bad_status /\ xml'.bad_status) =>
               mc'.err = svn_error_create("error status", xml.responses)
          /\ mc.err # NULL => mc'.err = mc.err
     ELSE (out.pc = "request" /\ mc.err # NULL) =>
            /\ ~out'.written
            /\ out'.new_rev = out.new_rev
            /\ out'.committed_date = out.committed_date
            /\ out'.committed_author = out.committed_author
            /\ ~RequestFailed(out') => out'.ret = mc.err]_vars

\* the error of the first response is returned although the second response
\* had a bad status line too
C32_Witness ==
  /\ out.pc = "returned" /\ ~out.written
  /\ out.ret = svn_error_create("error status", 1)
  /\ xml.responses = 2 /\ xml.bad_status

\* C32 as the specification states it: whenever the context error is set,
\* svn_ra_dav__merge_activity returns that error
C32_ReturnsContextError ==
  [][IF out.pc = "request" /\ out'.pc = "request"
     THEN mc.err # NULL => mc'.err = mc.err
     ELSE (out.pc = "request" /\ mc.err # NULL) =>
            /\ ~out'.written
            /\ out'.ret = mc.err]_vars

----------------------------------------------------------------------------
(* The calls of push_prop for the responses of a MERGE, under SpecMerge *)

ResponseStarts ==
  /\ out.pc = "request" /\ out'.pc = "request"
  /\ Len(xml'.stack) > Len(xml.stack) /\ Top(xml'.stack) = "ELEM_response"

ResponseEnds ==
  /\ out.pc = "request" /\ out'.pc = "request"
  /\ Len(xml'.stack) < Len(xml.stack) /\ Top(xml.stack) = "ELEM_response"

\* the path of the resource relative to the base of the commit, decoded
RelativePath(href) ==
  svn_path_uri_decode(SubSeq(href, Len(base_href) + 2, Len(href)))

\* the paths strictly above path, the empty path among them
ProperAncestors(path) ==
  {SubSeq(path, 1, i - 1) : i \in {j \in 1..Len(path) : path[j] = "/"}}
    \cup (IF path = <<>> THEN {} ELSE {<<>>})

Bumpable(path, valid_targets) ==
  \/ path \in DOMAIN valid_targets
  \/ \E p \in ProperAncestors(path) :
       p \in DOMAIN valid_targets /\ valid_targets[p] = "svn_recursive"

\* C33: push_prop is called only at the end of a DAV:response, once, when
\* the response had no error status since its start element, stands in
\* updated-set, is no baseline and has a path that is in valid_targets or
\* has a proper ancestor there marked recursive; the start element of a
\* response resets the error flag, href, version name, version URL and
\* resource type; the end of a response in merged-set calls nothing and
\* leaves an error in the context, the protocol error when the response
\* had no error status and no error was stored before.
C33_PushOnlyForUpdated ==
  [][/\ out.pc = "request" => (wc' # wc => ResponseEnds)
     /\ ResponseStarts =>
          /\ ~mc'.response_has_error
          /\ mc'.href = <<>> /\ mc'.vsn_name = <<>> /\ mc'.vsn_url = <<>>
          /\ mc'.rtype = "RTYPE_UNKNOWN"
     /\ (ResponseEnds /\ wc' # wc) =>
          /\ ~xml.bad_status
          /\ xml.stack[Len(xml.stack) - 1] = "ELEM_updated_set"
          /\ mc.rtype # "RTYPE_BASELINE"
          /\ mc.push_prop # NULL
          /\ Bumpable(RelativePath(mc.href), mc.valid_targets)
          /\ wc' = Append(wc, [path |-> RelativePath(mc.href),
                               name |-> "SVN_RA_DAV__LP_VSN_URL",
                               value |-> mc.vsn_url])
     /\ (ResponseEnds /\ xml.stack[Len(xml.stack) - 1] = "ELEM_merged_set") =>
          /\ wc' = wc
          /\ mc'.err # NULL
          /\ (~xml.bad_status /\ mc.err = NULL) =>
               mc'.err = svn_error_create("merged", xml.responses)]_vars

\* the second response is pushed for a path under a recursive target after
\* the first response had an error status and pushed nothing
C33_Witness ==
  /\ out.pc = "request" /\ xml.responses = 2
  /\ Top(xml.stack) = "ELEM_updated_set"
  /\ mc.err = svn_error_create("error status", 1)
  /\ wc = <<[path |-> <<"a", "/", "b">>, name |-> "SVN_RA_DAV__LP_VSN_URL",
             value |-> <<"/", "v">>]>>

====
